---- MODULE Spec2Model ----
(***************************************************************************)
(* Model of the MyFridge recipe corpus tools: the duplicate resolver       *)
(* (scraper/deduplicate_recipes.py), the popularity scorers                *)
(* (scraper/real_popularity_system.py, scraper/add_popularity_scores.py)   *)
(* and the ingredient matcher (app/services/recipe_service.py).            *)
(*                                                                         *)
(* Python strings are modelled as sequences of one-character strings, so   *)
(* that lower(), strip(), split(), re.sub() and the `in` substring test    *)
(* are computed character by character as the interpreter computes them.   *)
(***************************************************************************)
EXTENDS Integers, Sequences, FiniteSets, TLC

VARIABLES
    \* ---- duplicate resolver (RecipeDeduplicator and the files it uses)
    store,          \* content of data/recipes.json: a sequence of recipes
    backup,         \* content of data/recipes.before_dedup.json
    recipes,        \* RecipeDeduplicator.recipes
    groups,         \* RecipeDeduplicator.groups, in dict insertion order
    stats,          \* RecipeDeduplicator.stats
    deduplicated,   \* the list deduplicate() returned
    log,            \* what deduplicate() printed, one entry per merged group
    pc,             \* position of the run in main()'s call sequence
    run,            \* number of completed resolver runs on this store
    \* ---- two spellings of one recipe name, given to normalize_name
    spelling0,      \* the name as first written
    spellingPrev,   \* the spelling before the last edit
    spelling,       \* the current spelling
    edit,           \* the last edit: its kind and the character it added or removed
    nedits,         \* number of edits made
    \* ---- one recipe given to the scoring functions
    subject,        \* the recipe record
    scores,         \* the function last applied to it, its signals and its result
    \* ---- the popularity batch pass (RealPopularityScorer.score_all_recipes)
    pass_recipes,   \* the list score_all_recipes loaded and updates in place
    pass_i,         \* index of the next record of the loop
    pass_pc,        \* position of the pass
    pytrends,       \* whether GoogleTrendsCollector.pytrends is set
    clock,          \* datetime.now(), counted in scorings
    scorings,       \* every scoring made: the record id, the signal values, the score
    trend_requests, \* the requests sent to the trend provider: whether one was sent,
                    \* the seconds slept since the last one, the gaps between
                    \* consecutive ones
    scored_before_interrupt, \* ids scored in a pass that was then interrupted
    \* ---- the ingredient matcher (RecipeService)
    svc_recipes,    \* RecipeService.recipes
    svc_pc,         \* position of the service: new, ready, returned
    request,        \* the arguments of the last get_recipes_by_ingredients call
    match_counts,   \* match_count of every recipe in that call
    scored_recipes, \* the list scored_recipes of that call, after its sort
    response,       \* the list the call returned
    raised,         \* the exception the call raised, if any
    \* ---- the batch tools run from their main() on the files, and a reader
    store_complete, \* data/recipes.json holds the whole JSON text of store; FALSE
                    \* from open(path, 'w') until json.dump has written it all
    tool,           \* the tool that is running and its position in main()
    tool_recipes,   \* the list the tool loaded
    tool_out,       \* the list the tool is about to write
    confirmed,      \* the answer given to the tool's input() prompt in this run
    pre_run,        \* content of data/recipes.json when the run started
    overwritten,    \* pre-run contents of the runs that opened the file for writing
    tool_runs,      \* number of tool runs started
    reader_saw,     \* what the last load of a reader found: whole or partial text
    \* ---- the importers run from their main() on the same files
    importer,       \* the importer that is running and its position in main()
    raw_recipes,    \* the recipes the run fetched or parsed, in their order
    existing_recipes, \* the list the run loaded from data/recipes.json
    existing_names, \* the importer's set of normalized names
    existing_ids,   \* the importer's set of ids
    new_recipes,    \* the recipes the run is about to add
    import_stats,   \* the importer's counters
    import_backup,  \* content of data/recipes.backup.json
    import_runs,    \* number of importer runs started
    import_log      \* the writes of the importers: who wrote, onto what, what

dedupVars == <<backup, recipes, groups, stats, deduplicated, log, pc, run>>
nameVars == <<spelling0, spellingPrev, spelling, edit, nedits>>
fnVars == <<subject, scores>>
passVars == <<pass_recipes, pass_i, pass_pc, pytrends, clock, scorings,
              trend_requests, scored_before_interrupt>>
matchVars == <<svc_recipes, svc_pc, request, match_counts, scored_recipes, response, raised>>

toolVars == <<store_complete, tool, tool_recipes, tool_out, confirmed, pre_run,
              overwritten, tool_runs, reader_saw>>

importVars == <<importer, raw_recipes, existing_recipes, existing_names, existing_ids,
                new_recipes, import_stats, import_backup, import_runs, import_log>>

vars == <<store, dedupVars, nameVars, fnVars, passVars, matchVars, toolVars, importVars>>

\* what the steps of one component leave alone
NotDedup == <<nameVars, fnVars, passVars, matchVars, toolVars, importVars>>
NotName  == <<store, dedupVars, fnVars, passVars, matchVars, toolVars, importVars>>
NotFn    == <<store, dedupVars, nameVars, passVars, matchVars, toolVars, importVars>>
NotPass  == <<dedupVars, nameVars, fnVars, matchVars, toolVars, importVars>>
NotMatch == <<store, dedupVars, nameVars, fnVars, passVars, toolVars, importVars>>
NotTools == <<recipes, groups, stats, deduplicated, log, pc, run,
              nameVars, fnVars, passVars,
              request, match_counts, scored_recipes, response, raised, importVars>>
NotImport == <<dedupVars, nameVars, fnVars, passVars, matchVars, toolVars>>

----------------------------------------------------------------------------
(* Bounds of the model *)

\* longest corpus the resolver is run on
MaxCorpus == 3
\* longest corpus the tools are run on from their main()
MaxToolCorpus == 2
\* tool runs started in one behaviour
MaxToolRuns == 2
\* resolver runs in one behaviour (the second run reads the first's output)
MaxRuns == 2
\* edits made to the spelling of one name
MaxEdits == 2
\* longest corpus the popularity pass is run on
MaxPassCorpus == 2
\* scorings made in one behaviour, over all the passes
MaxScorings == 3
\* longest corpus the recipe service loads
MaxMatchCorpus == 2
\* longest query ingredient list
MaxQuery == 2
\* largest limit asked for (the route accepts 1..50)
MaxLimit == 2
\* longest store the importers are started on
MaxImportCorpus == 2
\* importer runs started in one behaviour
MaxImportRuns == 2
\* largest --limit given to an importer
MaxImportLimit == 2
\* runs started in one behaviour, tools and importers together
MaxSequence == 2

----------------------------------------------------------------------------
(* Python str primitives on sequences of characters *)

LowerLetters == <<"a", "b", "c", "d", "e", "f", "g", "h", "i", "j", "k", "l", "m",
                  "n", "o", "p", "q", "r", "s", "t", "u", "v", "w", "x", "y", "z">>
UpperLetters == <<"A", "B", "C", "D", "E", "F", "G", "H", "I", "J", "K", "L", "M",
                  "N", "O", "P", "Q", "R", "S", "T", "U", "V", "W", "X", "Y", "Z">>
Digits == {"0", "1", "2", "3", "4", "5", "6", "7", "8", "9"}

Range(f) == {f[i] : i \in DOMAIN f}

\* str.isspace for one character
IsSpace(c) == c \in {" ", "\t", "\n"}

\* the regex class \w: letters, digits and the underscore
WordChars == Range(LowerLetters) \cup Range(UpperLetters) \cup Digits \cup {"_"}

IsWordChar(c) == c \in WordChars

\* str.lower for one character
LowerOf == [c \in Range(UpperLetters) |->
              LowerLetters[CHOOSE i \in DOMAIN UpperLetters : UpperLetters[i] = c]]

LowerChar(c) == IF c \in DOMAIN LowerOf THEN LowerOf[c] ELSE c

\* str_lower left out: the name is compared in the case it was written
str_lower_missing(s) == s

\* str.lower
RECURSIVE str_lower(_)
str_lower(s) ==
    IF s = <<>> THEN <<>> ELSE <<LowerChar(Head(s))>> \o str_lower(Tail(s))

RECURSIVE lstrip(_)
lstrip(s) == IF s # <<>> /\ IsSpace(Head(s)) THEN lstrip(Tail(s)) ELSE s

RECURSIVE rstrip(_)
rstrip(s) ==
    IF s # <<>> /\ IsSpace(s[Len(s)]) THEN rstrip(SubSeq(s, 1, Len(s) - 1)) ELSE s

\* str.strip
str_strip(s) == rstrip(lstrip(s))

\* str.split() with no argument: the maximal runs of non-whitespace characters
RECURSIVE SplitFrom(_, _, _)
SplitFrom(s, words, word) ==
    IF s = <<>>
    THEN IF word = <<>> THEN words ELSE Append(words, word)
    ELSE IF IsSpace(Head(s))
         THEN SplitFrom(Tail(s), IF word = <<>> THEN words ELSE Append(words, word), <<>>)
         ELSE SplitFrom(Tail(s), words, Append(word, Head(s)))

str_split(s) == SplitFrom(s, <<>>, <<>>)

\* ' '.join(words)
RECURSIVE str_join(_)
str_join(words) ==
    IF words = <<>> THEN <<>>
    ELSE IF Len(words) = 1 THEN words[1]
    ELSE words[1] \o <<" ">> \o str_join(Tail(words))

\* re.sub(r'[^\w\s]', '', s)
RemoveSpecialChars(s) == SelectSeq(s, LAMBDA c : IsWordChar(c) \/ IsSpace(c))

\* re.sub(r'\s+', ' ', s): every maximal whitespace run becomes one blank
RECURSIVE CollapseSpaces(_)
CollapseSpaces(s) ==
    IF s = <<>> THEN <<>>
    ELSE IF IsSpace(Head(s))
         THEN <<" ">> \o CollapseSpaces(lstrip(s))
         ELSE <<Head(s)>> \o CollapseSpaces(Tail(s))

----------------------------------------------------------------------------
(* RecipeDeduplicator: configuration tables *)

Src_TheMealDB   == <<"T", "h", "e", "M", "e", "a", "l", "D", "B">>
Src_RecipePuppy == <<"R", "e", "c", "i", "p", "e", " ", "P", "u", "p", "p", "y">>
Src_Curated     == <<"C", "u", "r", "a", "t", "e", "d">>
Src_MyFridge    == <<"M", "y", "F", "r", "i", "d", "g", "e">>
Src_TheMealDB_api == <<"T", "h", "e", "M", "e", "a", "l", "D", "B", " ", "(", "a", "p", "i", ")">>

\* SOURCE_PRIORITY.get(source, 0)
SOURCE_PRIORITY(source) ==
    IF source = Src_TheMealDB THEN 100
    ELSE IF source = Src_RecipePuppy THEN 80
    ELSE IF source = Src_Curated THEN 60
    ELSE IF source = Src_MyFridge THEN 40
    ELSE 0

IGNORE_WORDS == {
    <<"t", "h", "e">>, <<"a">>, <<"a", "n">>,
    <<"p", "e", "r", "f", "e", "c", "t">>, <<"c", "l", "a", "s", "s", "i", "c">>,
    <<"e", "a", "s", "y">>, <<"s", "i", "m", "p", "l", "e">>, <<"b", "e", "s", "t">>,
    <<"h", "o", "m", "e", "m", "a", "d", "e">>, <<"u", "l", "t", "i", "m", "a", "t", "e">>,
    <<"a", "u", "t", "h", "e", "n", "t", "i", "c">>,
    <<"t", "r", "a", "d", "i", "t", "i", "o", "n", "a", "l">>,
    <<"q", "u", "i", "c", "k">>, <<"d", "e", "l", "i", "c", "i", "o", "u", "s">>,
    <<"a", "m", "a", "z", "i", "n", "g">>, <<"f", "a", "v", "o", "r", "i", "t", "e">>,
    <<"m", "o", "m", "s">>, <<"m", "o", "m", "'", "s">> }

----------------------------------------------------------------------------
(* RecipeDeduplicator: pure methods *)

\* words = [w for w in words if w not in self.IGNORE_WORDS]
RemoveIgnoreWords(words) == SelectSeq(words, LAMBDA w : w \notin IGNORE_WORDS)

normalize_name(name) ==
    LET normalized == str_strip(str_lower(name))
        words      == RemoveIgnoreWords(str_split(normalized))
        joined     == str_join(words)
        nospecial  == RemoveSpecialChars(joined)
    IN  str_strip(CollapseSpaces(nospecial))

\* source.split('(')[0]
RECURSIVE BeforeParen(_)
BeforeParen(s) ==
    IF s = <<>> \/ Head(s) = "(" THEN <<>> ELSE <<Head(s)>> \o BeforeParen(Tail(s))

\* dict.get(key, default) on a record whose domain is the set of keys present
dict_get(d, key, default) == IF key \in DOMAIN d THEN d[key] ELSE default

get_source_score(recipe) ==
    SOURCE_PRIORITY(str_strip(BeforeParen(dict_get(recipe, "source", <<>>))))

Min(a, b) == IF a <= b THEN a ELSE b
Max(a, b) == IF a >= b THEN a ELSE b

get_quality_score(recipe) ==
      get_source_score(recipe)
    + (IF dict_get(recipe, "image_url", <<>>) # <<>> THEN 20 ELSE 0)
    + Min(Len(dict_get(recipe, "ingredients", <<>>)), 20)
    + Min(Len(dict_get(recipe, "instructions", <<>>)), 15)
    + (IF dict_get(recipe, "description", <<>>) # <<>> THEN 10 ELSE 0)
    + Min(Len(dict_get(recipe, "tags", <<>>)), 10)

----------------------------------------------------------------------------
(* RecipeDeduplicator: the steps of a run *)

\* self.groups[normalized].append(recipe), on a defaultdict(list): a new key
\* is appended after the existing ones, an existing key keeps its place
groups_append(gs, recipe) ==
    LET normalized == normalize_name(recipe.name)
    IN  IF \E i \in DOMAIN gs : gs[i].key = normalized
        THEN LET i == CHOOSE j \in DOMAIN gs : gs[j].key = normalized
             IN  [gs EXCEPT ![i].members = Append(@, recipe)]
        ELSE Append(gs, [key |-> normalized, members |-> <<recipe>>])

RECURSIVE group_recipes(_, _)
group_recipes(gs, rs) ==
    IF rs = <<>> THEN gs ELSE group_recipes(groups_append(gs, Head(rs)), Tail(rs))

RECURSIVE count_duplicates(_)
count_duplicates(gs) ==
    IF gs = <<>> THEN 0
    ELSE (IF Len(Head(gs).members) > 1 THEN Len(Head(gs).members) - 1 ELSE 0)
         + count_duplicates(Tail(gs))

\* scored = [(score, recipe) for recipe in group]
score_group(group) ==
    [i \in DOMAIN group |-> [score |-> get_quality_score(group[i]), recipe |-> group[i]]]

\* sort_insert with ties resolved for the later element (an unstable sort)
sort_insert_later_first(sorted, x) ==
    LET k == Cardinality({i \in DOMAIN sorted : sorted[i].score > x.score})
    IN  SubSeq(sorted, 1, k) \o <<x>> \o SubSeq(sorted, k + 1, Len(sorted))

\* one step of list.sort(reverse=True, key=score): the sort is stable, so an
\* element goes behind every element whose score is at least its own
sort_insert(sorted, x) ==
    LET k == Cardinality({i \in DOMAIN sorted : sorted[i].score >= x.score})
    IN  SubSeq(sorted, 1, k) \o <<x>> \o SubSeq(sorted, k + 1, Len(sorted))

RECURSIVE sort_from(_, _)
sort_from(sorted, rest) ==
    IF rest = <<>> THEN sorted ELSE sort_from(sort_insert(sorted, Head(rest)), Tail(rest))

\* scored.sort(reverse=True, key=lambda x: x[0])
sort_scored(scored) == sort_from(<<>>, scored)

\* the member deduplicate() keeps of a group with several members
best_of(group) == sort_scored(score_group(group))[1].recipe

\* the lines deduplicate() prints for a group with several members
log_entry(g) ==
    LET scored == score_group(g.members)
        sorted == sort_scored(scored)
    IN  [normalized |-> g.key,
         members    |-> [i \in DOMAIN scored |->
                            [name   |-> scored[i].recipe.name,
                             id     |-> scored[i].recipe.id,
                             source |-> dict_get(scored[i].recipe, "source", <<"U", "n", "k", "n", "o", "w", "n">>),
                             score  |-> scored[i].score]],
         keeping    |-> [name |-> sorted[1].recipe.name, score |-> sorted[1].score],
         removing   |-> Len(sorted) - 1]

\* dedup_groups keeping every member that has the best score of its group
RECURSIVE dedup_groups_keep_ties(_, _)
dedup_groups_keep_ties(gs, acc) ==
    IF gs = <<>> THEN acc
    ELSE LET g    == Head(gs)
             top  == get_quality_score(best_of(g.members))
             tied == SelectSeq(g.members, LAMBDA r : get_quality_score(r) = top)
         IN  dedup_groups_keep_ties(Tail(gs),
                [acc EXCEPT !.deduplicated = @ \o tied,
                            !.kept = @ + Len(tied),
                            !.removed = @ + Len(g.members) - Len(tied),
                            !.log = IF Len(g.members) > 1
                                    THEN Append(@, log_entry(g)) ELSE @])

RECURSIVE dedup_groups(_, _)
dedup_groups(gs, acc) ==
    IF gs = <<>> THEN acc
    ELSE LET g == Head(gs)
         IN  IF Len(g.members) = 1
             THEN dedup_groups(Tail(gs),
                    [acc EXCEPT !.deduplicated = Append(@, g.members[1]),
                                !.kept = @ + 1])
             ELSE dedup_groups(Tail(gs),
                    [acc EXCEPT !.deduplicated = Append(@, best_of(g.members)),
                                !.kept = @ + 1,
                                !.removed = @ + Len(g.members) - 1,
                                !.log = Append(@, log_entry(g))])

\* RecipeDeduplicator.__init__
NewStats == [original |-> 0, duplicates |-> 0, kept |-> 0, removed |-> 0]

load_recipes ==
    /\ pc = "new"
    /\ recipes' = store
    /\ stats' = [stats EXCEPT !.original = Len(store)]
    /\ pc' = "loaded"
    /\ UNCHANGED <<store, backup, groups, deduplicated, log, run>>
    /\ UNCHANGED NotDedup

find_duplicates ==
    /\ pc = "loaded"
    /\ groups' = group_recipes(groups, recipes)
    /\ stats' = [stats EXCEPT !.duplicates = @ + count_duplicates(groups')]
    /\ pc' = "grouped"
    /\ UNCHANGED <<store, backup, recipes, deduplicated, log, run>>
    /\ UNCHANGED NotDedup

deduplicate ==
    /\ pc = "grouped"
    /\ LET out == dedup_groups(groups,
                    [deduplicated |-> <<>>, kept |-> stats.kept,
                     removed |-> stats.removed, log |-> log])
       IN  /\ deduplicated' = out.deduplicated
           /\ stats' = [stats EXCEPT !.kept = out.kept, !.removed = out.removed]
           /\ log' = out.log
    /\ pc' = "deduped"
    /\ UNCHANGED <<store, backup, recipes, groups, run>>
    /\ UNCHANGED NotDedup

save_recipes ==
    /\ pc = "deduped"
    /\ backup' = recipes
    /\ store' = deduplicated
    /\ pc' = "saved"
    /\ run' = run + 1
    /\ UNCHANGED <<recipes, groups, stats, deduplicated, log>>
    /\ UNCHANGED NotDedup

\* dedup = RecipeDeduplicator(): the next run of the tool on the same store
RecipeDeduplicator ==
    /\ pc = "saved"
    /\ run < MaxRuns
    /\ recipes' = <<>>
    /\ groups' = <<>>
    /\ stats' = NewStats
    /\ deduplicated' = <<>>
    /\ log' = <<>>
    /\ pc' = "new"
    /\ UNCHANGED <<store, backup, run>>
    /\ UNCHANGED NotDedup

----------------------------------------------------------------------------
(* The corpora the resolver is run on *)

Chars(n) == [i \in 1..n |-> "x"]
Items(n) == [i \in 1..n |-> <<"x">>]

Name_TheBestChickenSoup ==
    <<"T", "h", "e", " ", "B", "e", "s", "t", " ", "C", "h", "i", "c", "k", "e", "n", " ", "S", "o", "u", "p">>
Name_ChickenSoup == <<"C", "h", "i", "c", "k", "e", "n", " ", "S", "o", "u", "p">>
Name_TheBest     == <<"T", "h", "e", " ", "B", "e", "s", "t">>
Name_AClassic    == <<"A", " ", "C", "l", "a", "s", "s", "i", "c">>
Name_Pasta       == <<"P", "a", "s", "t", "a">>

\* recipe records without their id; a key that is absent is absent in the JSON
RecipePool == {
    [name |-> Name_TheBestChickenSoup, source |-> Src_Curated,
     ingredients |-> Items(5), instructions |-> Items(3),
     description |-> Chars(4), tags |-> Items(2)],
    [name |-> Name_ChickenSoup, source |-> Src_TheMealDB_api, image_url |-> Chars(4),
     ingredients |-> Items(10), instructions |-> Items(4),
     description |-> <<>>, tags |-> <<>>],
    [name |-> Name_ChickenSoup, source |-> Src_Curated,
     ingredients |-> Items(5), instructions |-> Items(3),
     description |-> Chars(4), tags |-> Items(2)],
    [name |-> Name_ChickenSoup, source |-> Src_MyFridge, image_url |-> Chars(4),
     ingredients |-> Items(10), instructions |-> Items(4),
     description |-> Chars(4), tags |-> Items(2)],
    [name |-> Name_TheBest, source |-> Src_MyFridge,
     ingredients |-> Items(2), instructions |-> Items(1)],
    [name |-> Name_AClassic, ingredients |-> Items(4), instructions |-> Items(2),
     image_url |-> Chars(4)],
    [name |-> Name_Pasta, source |-> Src_RecipePuppy,
     ingredients |-> Items(25), instructions |-> Items(16), tags |-> Items(11)] }

\* the corpora of at most MaxCorpus pool recipes, the i-th record having id i
Corpora ==
    UNION { { [i \in 1..n |-> f[i] @@ [id |-> i]] : f \in [1..n -> RecipePool] }
            : n \in 0..MaxCorpus }

\* no name is being edited
IdleName ==
    /\ spelling0 = <<>>
    /\ spellingPrev = <<>>
    /\ spelling = <<>>
    /\ edit = [kind |-> "none", char |-> ""]
    /\ nedits = 0

\* no resolver run is under way
IdleDedup ==
    /\ backup = <<>>
    /\ recipes = <<>>
    /\ groups = <<>>
    /\ stats = NewStats
    /\ deduplicated = <<>>
    /\ log = <<>>
    /\ pc = "idle"
    /\ run = 0

\* no recipe is being scored
IdleFn ==
    /\ subject = <<>>
    /\ scores = [fn |-> "none"]

\* no popularity pass is under way
IdlePass ==
    /\ pass_recipes = <<>>
    /\ pass_i = 0
    /\ pass_pc = "idle"
    /\ pytrends = FALSE
    /\ clock = 0
    /\ scorings = {}
    /\ trend_requests = [sent |-> FALSE, slept |-> 0, gaps |-> {}]
    /\ scored_before_interrupt = {}

\* no tool is run from its main() and the file is whole
IdleTools ==
    /\ store_complete = TRUE
    /\ tool = [name |-> "none", pc |-> "none"]
    /\ tool_recipes = <<>>
    /\ tool_out = <<>>
    /\ confirmed = "none"
    /\ pre_run = <<>>
    /\ overwritten = {}
    /\ tool_runs = 0
    /\ reader_saw = "none"

\* no importer was started
IdleImport ==
    /\ importer = [name |-> "none", pc |-> "none", limit |-> 0]
    /\ raw_recipes = <<>>
    /\ existing_recipes = <<>>
    /\ existing_names = {}
    /\ existing_ids = {}
    /\ new_recipes = <<>>
    /\ import_stats = [processed |-> 0, imported |-> 0, duplicates |-> 0, errors |-> 0]
    /\ import_backup = <<>>
    /\ import_runs = 0
    /\ import_log = <<>>

\* no recipe service is running
IdleMatch ==
    /\ svc_recipes = <<>>
    /\ svc_pc = "idle"
    /\ request = [ingredients |-> <<>>, limit |-> 0]
    /\ match_counts = <<>>
    /\ scored_recipes = <<>>
    /\ response = <<>>
    /\ raised = "none"

InitDedup ==
    /\ IdleName /\ IdleFn /\ IdlePass /\ IdleMatch /\ IdleTools /\ IdleImport
    /\ store \in Corpora
    /\ backup = <<>>
    /\ recipes = <<>>
    /\ groups = <<>>
    /\ stats = NewStats
    /\ deduplicated = <<>>
    /\ log = <<>>
    /\ pc = "new"
    /\ run = 0

NextDedup ==
    \/ load_recipes
    \/ find_duplicates
    \/ deduplicate
    \/ save_recipes
    \/ RecipeDeduplicator

Init == InitDedup

Next == NextDedup

Spec == Init /\ [][Next]_vars

----------------------------------------------------------------------------
(* Spellings of a recipe name: the edits under which normalize_name is meant
   to give the same key (stop words, case, punctuation, repeated blanks) *)

\* the stop words the edits insert
StopWordSamples == { <<"t", "h", "e">>, <<"m", "o", "m", "'", "s">> }

\* the punctuation marks the edits insert
PunctuationMarks == {"!", "'"}

\* a punctuation mark is a character that is neither of the class \w (which
\* holds the underscore) nor whitespace: what re.sub(r'[^\w\s]', '', s) removes
IsPunctuation(c) == ~IsWordChar(c) /\ ~IsSpace(c)

InsertAt(s, i, t) == SubSeq(s, 1, i) \o t \o SubSeq(s, i + 1, Len(s))
RemoveAt(s, i, j) == SubSeq(s, 1, i - 1) \o SubSeq(s, j + 1, Len(s))

\* position i (between s[i] and s[i+1]) is not inside a word
AtWordBoundary(s, i) ==
    IF i = 0 \/ i = Len(s) THEN TRUE ELSE IsSpace(s[i]) \/ IsSpace(s[i + 1])

\* s[i..j] is a whole whitespace-delimited token of s
IsToken(s, i, j) ==
    /\ 1 <= i /\ i <= j /\ j <= Len(s)
    /\ \A k \in i..j : ~IsSpace(s[k])
    /\ IF i = 1 THEN TRUE ELSE IsSpace(s[i - 1])
    /\ IF j = Len(s) THEN TRUE ELSE IsSpace(s[j + 1])

UpperChar(c) ==
    IF c \in Range(LowerLetters)
    THEN UpperLetters[CHOOSE i \in DOMAIN LowerLetters : LowerLetters[i] = c]
    ELSE c

ToggleCase(c) == IF c \in Range(UpperLetters) THEN LowerChar(c) ELSE UpperChar(c)

Edited(new, kind, char) ==
    /\ nedits < MaxEdits
    /\ spellingPrev' = spelling
    /\ spelling' = new
    /\ edit' = [kind |-> kind, char |-> char]
    /\ nedits' = nedits + 1
    /\ UNCHANGED spelling0
    /\ UNCHANGED NotName

insert_stop_word ==
    \E w \in StopWordSamples, i \in 0..Len(spelling) :
        /\ AtWordBoundary(spelling, i)
        /\ Edited(InsertAt(spelling, i, <<" ">> \o w \o <<" ">>), "stop_word", "")

remove_stop_word ==
    \E i, j \in 1..Len(spelling) :
        /\ IsToken(spelling, i, j)
        /\ str_lower(SubSeq(spelling, i, j)) \in IGNORE_WORDS
        /\ Edited(RemoveAt(spelling, i, j), "stop_word", "")

change_case ==
    \E i \in 1..Len(spelling) :
        /\ spelling[i] \in Range(LowerLetters) \cup Range(UpperLetters)
        /\ Edited([spelling EXCEPT ![i] = ToggleCase(@)], "case", "")

insert_punctuation ==
    \E i \in 0..Len(spelling), c \in PunctuationMarks :
        Edited(InsertAt(spelling, i, <<c>>), "punctuation", c)

remove_punctuation ==
    \E i \in 1..Len(spelling) :
        /\ IsPunctuation(spelling[i])
        /\ Edited(RemoveAt(spelling, i, i), "punctuation", spelling[i])

\* a blank next to a blank, or at either end, is an extra blank
insert_space ==
    \E i \in 0..Len(spelling) :
        /\ AtWordBoundary(spelling, i)
        /\ Edited(InsertAt(spelling, i, <<" ">>), "space", "")

remove_space ==
    \E i \in 1..Len(spelling) :
        /\ IsSpace(spelling[i])
        /\ IF i = 1 \/ i = Len(spelling) THEN TRUE
           ELSE IsSpace(spelling[i - 1]) \/ IsSpace(spelling[i + 1])
        /\ Edited(RemoveAt(spelling, i, i), "space", "")

BaseNames == {Name_ChickenSoup}

InitName ==
    /\ store = <<>>
    /\ IdleDedup /\ IdleFn /\ IdlePass /\ IdleMatch /\ IdleTools /\ IdleImport
    /\ spelling0 \in BaseNames
    /\ spellingPrev = spelling0
    /\ spelling = spelling0
    /\ edit = [kind |-> "none", char |-> ""]
    /\ nedits = 0

NextName ==
    \/ insert_stop_word
    \/ remove_stop_word
    \/ change_case
    \/ insert_punctuation
    \/ remove_punctuation
    \/ insert_space
    \/ remove_space

SpecName == InitName /\ [][NextName]_vars

----------------------------------------------------------------------------
(* The scoring functions.  A quality score is a whole number of points; a
   trend score and a popularity score are kept in tenths of a point, the
   precision round(x, 1) leaves, so 83.0 is 830. *)

\* a in b, for two strings
IsSubstring(a, b) ==
    \E i \in 0..(Len(b) - Len(a)) : \A k \in 1..Len(a) : b[i + k] = a[k]

\* round(c / 100, 1), for c in hundredths: the nearest tenth, a tie going to
\* the even tenth
round_1(c) ==
    LET q == c \div 10
        r == c % 10
    IN  IF r < 5 THEN q
        ELSE IF r > 5 THEN q + 1
        ELSE IF q % 2 = 0 THEN q ELSE q + 1

\* RealPopularityScorer.calculate_quality_score
calculate_quality_score(recipe) ==
    LET description  == dict_get(recipe, "description", <<>>)
        tags         == dict_get(recipe, "tags", <<>>)
        instructions == dict_get(recipe, "instructions", <<>>)
        ingredients  == dict_get(recipe, "ingredients", <<>>)
        score ==
              (IF description # <<>> /\ Len(description) > 20 THEN 15 ELSE 0)
            + (IF tags # <<>> /\ Len(tags) > 0 THEN 15 ELSE 0)
            + (IF dict_get(recipe, "image", <<>>) # <<>>
                  \/ dict_get(recipe, "image_url", <<>>) # <<>> THEN 20 ELSE 0)
            + (IF instructions # <<>> /\ Len(instructions) >= 3 THEN 25 ELSE 0)
            + (IF dict_get(recipe, "total_time", 0) # 0
                  \/ (dict_get(recipe, "prep_time", 0) # 0
                        /\ dict_get(recipe, "cook_time", 0) # 0)
               THEN 15 ELSE 0)
            + (IF 3 <= Len(ingredients) /\ Len(ingredients) <= 15 THEN 10 ELSE 0)
    IN  Min(100, score)

\* RealPopularityScorer.calculate_recency_boost
calculate_recency_boost(recipe) == 50

\* PlatformEngagementCollector.get_engagement_score
get_engagement_score(recipe_name) == 60

\* interest_over_time()[primary_term].mean() if not frame.empty else 0
frame_avg(frame) == IF frame.empty THEN 0 ELSE frame.mean

\* get_interest_score returning the weighted mean as it is, with no
\* min(100, max(0, score))
get_interest_score_unclamped(available, answer) ==
    IF ~available THEN 500
    ELSE IF answer.kind = "error" THEN 500
    ELSE frame_avg(answer.recent) * 6 + frame_avg(answer.baseline) * 4

\* get_interest_score answering 0, not the neutral 50, when the provider is
\* missing or raises
get_interest_score_zero_on_error(available, answer) ==
    IF ~available THEN 0
    ELSE IF answer.kind = "error" THEN 0
    ELSE Min(1000, Max(0, frame_avg(answer.recent) * 6 + frame_avg(answer.baseline) * 4))

\* GoogleTrendsCollector.get_interest_score, in tenths.  answer is what the
\* provider did with the two requests: it raised, or it returned two frames.
get_interest_score(available, answer) ==
    IF ~available THEN 500
    ELSE IF answer.kind = "error" THEN 500
    ELSE LET recent_avg   == frame_avg(answer.recent)
             baseline_avg == frame_avg(answer.baseline)
             score        == recent_avg * 6 + baseline_avg * 4
         IN  Min(1000, Max(0, score))

\* the weighted sum with the trend and engagement weights exchanged
weighted_score_swapped(google_trends, platform_engagement, quality, recency) ==
    round_1(google_trends * 3 + platform_engagement * 40 + quality * 20 + recency * 10)

\* the weighted sum of calculate_real_popularity and its rounding: the trend
\* in tenths, the other components in points, the result in tenths
weighted_score(google_trends, platform_engagement, quality, recency) ==
    round_1(google_trends * 4 + platform_engagement * 30 + quality * 20 + recency * 10)

\* calculate_real_popularity reading the score the record already carries: the
\* new score is averaged with it
calculate_real_popularity_smoothed(recipe, google_trends) ==
    LET fresh == weighted_score(google_trends,
                    get_engagement_score(dict_get(recipe, "name", <<>>)),
                    calculate_quality_score(recipe), calculate_recency_boost(recipe))
    IN  IF "popularity_score" \in DOMAIN recipe
        THEN (fresh + recipe.popularity_score) \div 2
        ELSE fresh

\* RealPopularityScorer.calculate_real_popularity, given the value
\* get_interest_score returned for the recipe's name
calculate_real_popularity(recipe, google_trends) ==
    LET recipe_name         == dict_get(recipe, "name", <<"U", "n", "k", "n", "o", "w", "n">>)
        platform_engagement == get_engagement_score(recipe_name)
        quality             == calculate_quality_score(recipe)
        recency             == calculate_recency_boost(recipe)
    IN  weighted_score(google_trends, platform_engagement, quality, recency)

\* add_popularity_scores.py: source_scores, in dict order
source_scores == <<
    [key |-> <<"t", "h", "e", "m", "e", "a", "l", "d", "b">>, score |-> 35],
    [key |-> <<"b", "b", "c", " ", "f", "o", "o", "d">>, score |-> 32],
    [key |-> <<"e", "p", "i", "c", "u", "r", "i", "o", "u", "s">>, score |-> 30],
    [key |-> <<"f", "o", "o", "d", ".", "c", "o", "m">>, score |-> 25],
    [key |-> <<"m", "y", "f", "r", "i", "d", "g", "e">>, score |-> 20],
    [key |-> <<"r", "e", "c", "i", "p", "e", " ", "p", "u", "p", "p", "y">>, score |-> 15] >>

\* the for ... else over source_scores: the first key found in the source
source_base_score(source) ==
    LET hits == {i \in DOMAIN source_scores : IsSubstring(source_scores[i].key, source)}
    IN  IF hits = {} THEN 10
        ELSE source_scores[CHOOSE i \in hits : \A j \in hits : i <= j].score

\* add_popularity_scores.calculate_popularity_score, in tenths
calculate_popularity_score(recipe) ==
    LET source       == str_lower(dict_get(recipe, "source", <<>>))
        description  == dict_get(recipe, "description", <<>>)
        tags         == dict_get(recipe, "tags", <<>>)
        instructions == dict_get(recipe, "instructions", <<>>)
        ingredients  == dict_get(recipe, "ingredients", <<>>)
        completeness ==
              (IF description # <<>> /\ Len(description) > 20 THEN 5 ELSE 0)
            + (IF tags # <<>> /\ Len(tags) > 0 THEN 5 ELSE 0)
            + (IF dict_get(recipe, "image", <<>>) # <<>> THEN 5 ELSE 0)
            + (IF instructions # <<>> /\ Len(instructions) >= 3 THEN 5 ELSE 0)
            + (IF 3 <= Len(ingredients) /\ Len(ingredients) <= 15 THEN 5
               ELSE IF Len(ingredients) > 15 THEN 2 ELSE 0)
            + (IF dict_get(recipe, "total_time", 0) # 0
                  \/ (dict_get(recipe, "prep_time", 0) # 0
                        /\ dict_get(recipe, "cook_time", 0) # 0)
               THEN 5 ELSE 0)
        total_time ==
            IF dict_get(recipe, "total_time", 0) # 0
            THEN dict_get(recipe, "total_time", 0)
            ELSE dict_get(recipe, "prep_time", 0) + dict_get(recipe, "cook_time", 0)
        time_bonus ==
            IF total_time > 0
            THEN IF total_time <= 15 THEN 15
                 ELSE IF total_time <= 30 THEN 12
                 ELSE IF total_time <= 45 THEN 8
                 ELSE IF total_time <= 60 THEN 5
                 ELSE 2
            ELSE 5
        ingredient_count == Len(ingredients)
        count_bonus ==
            IF 5 <= ingredient_count /\ ingredient_count <= 10 THEN 15
            ELSE IF 3 <= ingredient_count /\ ingredient_count <= 12 THEN 12
            ELSE IF ingredient_count <= 15 THEN 8
            ELSE IF ingredient_count <= 20 THEN 5
            ELSE 2
        score == source_base_score(source) + completeness + time_bonus + count_bonus
    IN  Min(1000, Max(0, score * 10))

----------------------------------------------------------------------------
(* The scoring functions applied to one recipe *)

\* a record with no key
NoFields == [k \in {} |-> 0]

DescriptionOptions  == {NoFields, [description |-> Chars(20)], [description |-> Chars(21)]}
TagOptions          == {[tags |-> <<>>], [tags |-> Items(1)]}
ImageOptions        == {NoFields, [image |-> Chars(4)], [image_url |-> Chars(4)]}
InstructionOptions  == {[instructions |-> Items(2)], [instructions |-> Items(3)]}
TimingOptions       == {NoFields, [total_time |-> 15], [total_time |-> 45], [total_time |-> 90],
                        [prep_time |-> 10, cook_time |-> 20], [prep_time |-> 10]}
IngredientOptions   == {NoFields, [ingredients |-> Items(3)], [ingredients |-> Items(10)],
                        [ingredients |-> Items(15)], [ingredients |-> Items(16)],
                        [ingredients |-> Items(21)]}
SourceOptions       == {NoFields, [source |-> Src_TheMealDB_api]}

\* the recipes the scoring functions are applied to
Subjects ==
    { [name |-> Name_Pasta] @@ d @@ t @@ im @@ ins @@ tm @@ ing @@ src :
        d \in DescriptionOptions, t \in TagOptions, im \in ImageOptions,
        ins \in InstructionOptions, tm \in TimingOptions, ing \in IngredientOptions,
        src \in SourceOptions }

\* the means Google Trends may return for a term; the provider scales its
\* values to 0..100, and the scorer is to hold its range whatever it is given
TrendAverages == {-20, 37, 100, 150}

TrendFrames ==
    {[empty |-> TRUE, mean |-> 0]} \cup {[empty |-> FALSE, mean |-> a] : a \in TrendAverages}

\* what the provider does with the requests of one get_interest_score call
TrendAnswers ==
    {[kind |-> "error"]}
    \cup {[kind |-> "ok", recent |-> r, baseline |-> b] : r, b \in TrendFrames}

apply_calculate_quality_score ==
    /\ subject # <<>>
    /\ scores.fn = "none"
    /\ scores' = [fn |-> "calculate_quality_score", score |-> calculate_quality_score(subject)]
    /\ UNCHANGED subject
    /\ UNCHANGED NotFn

apply_calculate_real_popularity ==
    /\ subject # <<>>
    /\ scores.fn = "none"
    /\ \E available \in BOOLEAN, answer \in TrendAnswers :
         LET google_trends == get_interest_score(available, answer)
         IN  scores' = [fn |-> "calculate_real_popularity",
                        available |-> available, answer |-> answer,
                        google_trends |-> google_trends,
                        score |-> calculate_real_popularity(subject, google_trends)]
    /\ UNCHANGED subject
    /\ UNCHANGED NotFn

apply_calculate_popularity_score ==
    /\ subject # <<>>
    /\ scores.fn = "none"
    /\ scores' = [fn |-> "calculate_popularity_score",
                  score |-> calculate_popularity_score(subject)]
    /\ UNCHANGED subject
    /\ UNCHANGED NotFn

InitFn ==
    /\ store = <<>>
    /\ IdleDedup /\ IdleName /\ IdlePass /\ IdleMatch /\ IdleTools /\ IdleImport
    /\ subject \in Subjects
    /\ scores = [fn |-> "none"]

NextFn ==
    \/ apply_calculate_quality_score
    \/ apply_calculate_real_popularity
    \/ apply_calculate_popularity_score

SpecFn == InitFn /\ [][NextFn]_vars

----------------------------------------------------------------------------
(* RealPopularityScorer.score_all_recipes: the popularity batch pass *)

\* one step of recipes.sort(key=popularity_score, reverse=True), a stable sort
popularity_insert(sorted, r) ==
    LET k == Cardinality({i \in DOMAIN sorted :
                dict_get(sorted[i], "popularity_score", 0) >= dict_get(r, "popularity_score", 0)})
    IN  SubSeq(sorted, 1, k) \o <<r>> \o SubSeq(sorted, k + 1, Len(sorted))

RECURSIVE popularity_sort_from(_, _)
popularity_sort_from(sorted, rest) ==
    IF rest = <<>> THEN sorted
    ELSE popularity_sort_from(popularity_insert(sorted, Head(rest)), Tail(rest))

\* recipes.sort(key=lambda r: r.get('popularity_score', 0), reverse=True)
sort_by_popularity(rs) == popularity_sort_from(<<>>, rs)

\* recipe[key] = value, on a dict
dict_set(d, key, value) == [k \in DOMAIN d \cup {key} |-> IF k = key THEN value ELSE d[k]]

\* the three assignments without the first: the score before is not kept
with_new_score_only(recipe, real_score, now) ==
    dict_set(dict_set(recipe,
        "popularity_score", real_score),
        "popularity_last_updated", now)

\* the three assignments that end the loop body
with_new_score(recipe, real_score, now) ==
    dict_set(dict_set(dict_set(recipe,
        "popularity_score_old", dict_get(recipe, "popularity_score", 0)),
        "popularity_score", real_score),
        "popularity_last_updated", now)

\* time.sleep(1): the seconds slept after a successful pair of requests
SleepSeconds == 1

\* the answers of the trend provider during a pass: an exception before any
\* request is sent or while the first one is under way, or two frames
PassAnswers ==
    { [kind |-> "error", requests |-> 0],
      [kind |-> "error", requests |-> 1],
      [kind |-> "ok", requests |-> 2,
       recent |-> [empty |-> FALSE, mean |-> 100],
       baseline |-> [empty |-> FALSE, mean |-> 100]],
      [kind |-> "ok", requests |-> 2,
       recent |-> [empty |-> FALSE, mean |-> 37],
       baseline |-> [empty |-> TRUE, mean |-> 0]] }

\* get_interest_score's traffic: the 90-day request, then the 5-year request
\* right after it, then time.sleep on the success path only
requests_after(tr, available, answer) ==
    IF ~available \/ answer.requests = 0 THEN tr
    ELSE [sent  |-> TRUE,
          slept |-> IF answer.kind = "ok" THEN SleepSeconds ELSE 0,
          gaps  |-> tr.gaps \cup (IF tr.sent THEN {tr.slept} ELSE {})
                            \cup (IF answer.requests = 2 THEN {0} ELSE {})]

\* the value of the key is the JSON null: recipe.get(key, default) is None
is_none(recipe, key) == "null" \in DOMAIN recipe /\ key \in recipe.null

\* calculate_quality_score raises TypeError: len(None) on null ingredients
calculate_quality_score_raises(recipe) == is_none(recipe, "ingredients")

\* with open(recipes_file) as f: recipes = json.load(f)
score_all_recipes_load ==
    /\ pass_pc = "start"
    /\ pass_recipes' = store
    /\ pass_i' = 1
    /\ pass_pc' = "loop"
    /\ UNCHANGED <<store, pytrends, clock, scorings, trend_requests, scored_before_interrupt>>
    /\ UNCHANGED NotPass

\* one turn of the loop over the recipes; an exception of
\* calculate_real_popularity leaves score_all_recipes and main
score_all_recipes_score ==
    /\ pass_pc = "loop"
    /\ pass_i <= Len(pass_recipes)
    /\ clock < MaxScorings
    /\ \E answer \in (IF pytrends THEN PassAnswers
                                  ELSE {[kind |-> "error", requests |-> 0]}) :
         LET recipe        == pass_recipes[pass_i]
             google_trends == get_interest_score(pytrends, answer)
             raises        == calculate_quality_score_raises(recipe)
             real_score    == IF raises THEN -1
                              ELSE calculate_real_popularity(recipe, google_trends)
         IN  /\ trend_requests' = requests_after(trend_requests, pytrends, answer)
             /\ scorings' = scorings \cup
                   {[id |-> recipe.id, at |-> clock,
                     had_score |-> "popularity_score" \in DOMAIN recipe,
                     rescored |-> recipe.id \in scored_before_interrupt,
                     provider |-> IF pytrends THEN answer.kind ELSE "unavailable",
                     google_trends |-> google_trends,
                     platform_engagement |->
                        get_engagement_score(dict_get(recipe, "name", <<>>)),
                     quality |-> IF raises THEN -1 ELSE calculate_quality_score(recipe),
                     recency |-> calculate_recency_boost(recipe),
                     raised |-> raises,
                     score |-> real_score]}
             /\ IF raises
                THEN /\ pass_pc' = "aborted"
                     /\ UNCHANGED <<pass_recipes, pass_i, clock>>
                ELSE /\ pass_recipes' =
                          [pass_recipes EXCEPT ![pass_i] = with_new_score(recipe, real_score, clock)]
                     /\ pass_i' = pass_i + 1
                     /\ clock' = clock + 1
                     /\ UNCHANGED pass_pc
    /\ UNCHANGED <<store, pytrends, scored_before_interrupt>>
    /\ UNCHANGED NotPass

\* the process is interrupted (Ctrl-C, kill) during the loop: recipes, the
\* list in memory, is lost and recipes_file was not written
score_all_recipes_interrupt ==
    /\ pass_pc = "loop"
    /\ scored_before_interrupt' =
          scored_before_interrupt \cup {pass_recipes[k].id : k \in 1..(pass_i - 1)}
    /\ pass_pc' = "interrupted"
    /\ UNCHANGED <<store, pass_recipes, pass_i, pytrends, clock, scorings, trend_requests>>
    /\ UNCHANGED NotPass

\* after the loop: the sort and the write of recipes_file
score_all_recipes_save ==
    /\ pass_pc = "loop"
    /\ pass_i > Len(pass_recipes)
    /\ pass_recipes' = sort_by_popularity(pass_recipes)
    /\ store' = pass_recipes'
    /\ pass_pc' = "done"
    /\ scored_before_interrupt' = {}
    /\ UNCHANGED <<pass_i, pytrends, clock, scorings, trend_requests>>
    /\ UNCHANGED NotPass

\* scorer = RealPopularityScorer(): the next run of the tool on the same store
RealPopularityScorer ==
    /\ pass_pc \in {"done", "aborted", "interrupted"}
    /\ clock < MaxScorings
    /\ pass_recipes' = <<>>
    /\ pass_i' = 0
    /\ pass_pc' = "start"
    /\ UNCHANGED <<store, pytrends, clock, scorings, trend_requests, scored_before_interrupt>>
    /\ UNCHANGED NotPass

\* recipe records without their id, for the pass
PassPool == {
    [name |-> Name_Pasta, description |-> Chars(21), tags |-> Items(1),
     image |-> Chars(4), instructions |-> Items(3), total_time |-> 15,
     ingredients |-> Items(3)],
    [name |-> Name_TheBest, popularity_score |-> 450],
    [ingredients |-> Items(3), tags |-> Items(2), popularity_score |-> 610,
     popularity_score_old |-> 300],
    [name |-> Name_AClassic, tags |-> Items(1), null |-> {"ingredients"}] }

PassCorpora ==
    UNION { { [i \in 1..n |-> f[i] @@ [id |-> i]] : f \in [1..n -> PassPool] }
            : n \in 0..MaxPassCorpus }

InitPass ==
    /\ IdleDedup /\ IdleName /\ IdleFn /\ IdleMatch /\ IdleTools /\ IdleImport
    /\ store \in PassCorpora
    /\ pass_recipes = <<>>
    /\ pass_i = 0
    /\ pass_pc = "start"
    /\ pytrends \in BOOLEAN
    /\ clock = 0
    /\ scorings = {}
    /\ trend_requests = [sent |-> FALSE, slept |-> 0, gaps |-> {}]
    /\ scored_before_interrupt = {}

NextPass ==
    \/ score_all_recipes_load
    \/ score_all_recipes_score
    \/ score_all_recipes_interrupt
    \/ score_all_recipes_save
    \/ RealPopularityScorer

SpecPass == InitPass /\ [][NextPass]_vars

----------------------------------------------------------------------------
(* IngredientAuditor.normalize_ingredient *)

WhiteSpace == {" ", "\t", "\n"}

\* the index after the run of characters of class that starts at i
RECURSIVE RunEnd(_, _, _)
RunEnd(s, i, class) ==
    IF i <= Len(s) /\ s[i] \in class THEN RunEnd(s, i + 1, class) ELSE i

\* the index after the run of non-whitespace characters that starts at i
RECURSIVE NonSpaceEnd(_, _)
NonSpaceEnd(s, i) ==
    IF i <= Len(s) /\ s[i] \notin WhiteSpace THEN NonSpaceEnd(s, i + 1) ELSE i

\* the index at which the run of characters of class that ends at i starts
RECURSIVE RunStart(_, _, _)
RunStart(s, i, class) ==
    IF i >= 1 /\ s[i] \in class THEN RunStart(s, i - 1, class) ELSE i + 1

\* ^\d+(\.\d+)? : the index after the leading number, 0 when there is none
NumberEnd(s) ==
    LET d == RunEnd(s, 1, Digits)
    IN  IF d = 1 THEN 0
        ELSE IF d <= Len(s) /\ s[d] = "." /\ RunEnd(s, d + 1, Digits) > d + 1
             THEN RunEnd(s, d + 1, Digits)
             ELSE d

\* (cup|cups|...|l)
Units ==
    { <<"c", "u", "p">>,
      <<"c", "u", "p", "s">>,
      <<"t", "a", "b", "l", "e", "s", "p", "o", "o", "n">>,
      <<"t", "a", "b", "l", "e", "s", "p", "o", "o", "n", "s">>,
      <<"t", "e", "a", "s", "p", "o", "o", "n">>,
      <<"t", "e", "a", "s", "p", "o", "o", "n", "s">>,
      <<"t", "b", "s", "p">>,
      <<"t", "s", "p">>,
      <<"o", "z">>,
      <<"g">>,
      <<"k", "g">>,
      <<"l", "b">>,
      <<"m", "l">>,
      <<"l">> }

\* (cup|cups|...|l)s?
UnitWords == Units \cup { u \o <<"s">> : u \in Units }

\* re.sub(r'^\d+(\.\d+)?\s*(cup|...|l)s?\s+', '', ing, flags=re.IGNORECASE)
remove_measurement(s) ==
    LET n == NumberEnd(s)
    IN  IF n = 0 THEN s
        ELSE LET w == RunEnd(s, n, WhiteSpace)
                 e == NonSpaceEnd(s, w)
                 r == RunEnd(s, e, WhiteSpace)
             IN  IF str_lower(SubSeq(s, w, e - 1)) \in UnitWords /\ r > e
                 THEN SubSeq(s, r, Len(s))
                 ELSE s

\* re.sub(r'^\d+(\.\d+)?\s+', '', ing)
remove_leading_number(s) ==
    LET n == NumberEnd(s)
    IN  IF n = 0 THEN s
        ELSE LET r == RunEnd(s, n, WhiteSpace)
             IN  IF r > n THEN SubSeq(s, r, Len(s)) ELSE s

\* re.sub(r'\([^)]*\)', '', ing), from index i on
RECURSIVE remove_parentheticals_from(_, _)
remove_parentheticals_from(s, i) ==
    IF i > Len(s) THEN <<>>
    ELSE LET closing == {j \in (i + 1)..Len(s) : s[j] = ")"}
         IN  IF s[i] = "(" /\ closing # {}
             THEN remove_parentheticals_from(s,
                      (CHOOSE j \in closing : \A k \in closing : j <= k) + 1)
             ELSE <<s[i]>> \o remove_parentheticals_from(s, i + 1)

remove_parentheticals(s) == remove_parentheticals_from(s, 1)

\* (to taste|optional|if needed|or more)
TrailingNotes ==
    { <<"t", "o", " ", "t", "a", "s", "t", "e">>,
      <<"o", "p", "t", "i", "o", "n", "a", "l">>,
      <<"i", "f", " ", "n", "e", "e", "d", "e", "d">>,
      <<"o", "r", " ", "m", "o", "r", "e">> }

\* re.sub(r',?\s*(to taste|optional|if needed|or more)$', '', ing, flags=re.IGNORECASE)
remove_trailing_note(s) ==
    LET ending == {note \in TrailingNotes :
                      /\ Len(note) <= Len(s)
                      /\ str_lower(SubSeq(s, Len(s) - Len(note) + 1, Len(s))) = note}
    IN  IF ending = {} THEN s
        ELSE LET note == CHOOSE x \in ending : TRUE
                 p    == Len(s) - Len(note) + 1
                 w    == RunStart(s, p - 1, WhiteSpace)
                 c    == IF w > 1 /\ s[w - 1] = "," THEN w - 1 ELSE w
             IN  SubSeq(s, 1, c - 1)

normalize_ingredient(ing) ==
    str_strip(remove_trailing_note(str_strip(str_lower(
        remove_parentheticals(remove_leading_number(remove_measurement(ing)))))))

----------------------------------------------------------------------------
(* RecipeService: the recipe database service and its by-ingredients route *)

\* ' '.join(recipe['ingredients']).lower()
recipe_ingredients_text(recipe) == str_lower(str_join(recipe.ingredients))

\* the inner loop: match_count += 1 for every query item found in the text
match_count_of(recipe, ingredients) ==
    Cardinality({i \in DOMAIN ingredients :
        IsSubstring(str_lower(ingredients[i]), recipe_ingredients_text(recipe))})

\* match_count / len(ingredients): a fraction, or ZeroDivisionError
divide(n, d) ==
    IF d = 0 THEN [error |-> "ZeroDivisionError", num |-> 0, den |-> 1]
    ELSE [error |-> "none", num |-> n, den |-> d]

\* the loop body with the ratio computed before the match_count test
loop_body_ratio_first(recipe, ingredients) ==
    LET match_count == match_count_of(recipe, ingredients)
        match_ratio == divide(match_count, Len(ingredients))
    IN  [match_count |-> match_count,
         raised      |-> match_ratio.error,
         appended    |-> match_count > 0 /\ match_ratio.error = "none",
         entry       |-> [recipe |-> recipe, matches |-> match_count,
                          match_ratio |-> [num |-> match_ratio.num, den |-> match_ratio.den]]]

\* the body of the loop over self.recipes, for one recipe
loop_body(recipe, ingredients) ==
    LET match_count == match_count_of(recipe, ingredients)
        match_ratio == IF match_count > 0 THEN divide(match_count, Len(ingredients))
                       ELSE [error |-> "none", num |-> 0, den |-> 1]
    IN  [match_count |-> match_count,
         raised      |-> match_ratio.error,
         appended    |-> match_count > 0 /\ match_ratio.error = "none",
         entry       |-> [recipe |-> recipe, matches |-> match_count,
                          match_ratio |-> [num |-> match_ratio.num, den |-> match_ratio.den]]]

\* a sort step that puts the fewer matches first
matches_insert_ascending(sorted, sr) ==
    LET k == Cardinality({i \in DOMAIN sorted : sorted[i].matches <= sr.matches})
    IN  SubSeq(sorted, 1, k) \o <<sr>> \o SubSeq(sorted, k + 1, Len(sorted))

\* one step of scored_recipes.sort(key=matches, reverse=True), a stable sort
matches_insert(sorted, sr) ==
    LET k == Cardinality({i \in DOMAIN sorted : sorted[i].matches >= sr.matches})
    IN  SubSeq(sorted, 1, k) \o <<sr>> \o SubSeq(sorted, k + 1, Len(sorted))

RECURSIVE matches_sort_from(_, _)
matches_sort_from(sorted, rest) ==
    IF rest = <<>> THEN sorted
    ELSE matches_sort_from(matches_insert(sorted, Head(rest)), Tail(rest))

\* scored_recipes.sort(key=lambda x: x['matches'], reverse=True)
sort_by_matches(srs) == matches_sort_from(<<>>, srs)

\* the entries appended to scored_recipes, in corpus order
RECURSIVE appended_entries(_)
appended_entries(bodies) ==
    IF bodies = <<>> THEN <<>>
    ELSE (IF Head(bodies).appended THEN <<Head(bodies).entry>> ELSE <<>>)
         \o appended_entries(Tail(bodies))

\* get_recipe_service: the singleton is built, and its constructor loads the
\* recipes; any exception while loading leaves an empty list
RecipeService ==
    /\ svc_pc = "idle"
    /\ \E loaded \in BOOLEAN : svc_recipes' = IF loaded THEN store ELSE <<>>
    /\ svc_pc' = "ready"
    /\ UNCHANGED <<request, match_counts, scored_recipes, response, raised>>
    /\ UNCHANGED NotMatch

IngredientPool ==
    { <<>>,
      <<"e">>,
      <<"e", "g", "g">>,
      <<"M", "i", "l", "k">>,
      <<"2", " ", "c", "u", "p", "s", " ", "m", "i", "l", "k">> }

Queries == UNION { [1..n -> IngredientPool] : n \in 0..MaxQuery }

\* POST /by-ingredients: the route checks the limit and calls the service
get_recipes_by_ingredients ==
    /\ svc_pc = "ready"
    /\ \E ingredients \in Queries, limit \in 1..MaxLimit :
         LET bodies == [i \in DOMAIN svc_recipes |-> loop_body(svc_recipes[i], ingredients)]
             failed == \E i \in DOMAIN bodies : bodies[i].raised # "none"
             sorted == sort_by_matches(appended_entries(bodies))
         IN  /\ request' = [ingredients |-> ingredients, limit |-> limit]
             /\ match_counts' = [i \in DOMAIN bodies |-> bodies[i].match_count]
             /\ scored_recipes' = IF failed THEN <<>> ELSE sorted
             /\ response' = IF failed THEN <<>>
                            ELSE [i \in 1..Min(limit, Len(sorted)) |-> sorted[i].recipe]
             /\ raised' = IF failed THEN "ZeroDivisionError" ELSE "none"
    /\ svc_pc' = "responded"
    /\ UNCHANGED svc_recipes
    /\ UNCHANGED NotMatch

\* the route returns; the service waits for the next request
route_return ==
    /\ svc_pc = "responded"
    /\ svc_pc' = "ready"
    /\ request' = [ingredients |-> <<>>, limit |-> 0]
    /\ match_counts' = <<>>
    /\ scored_recipes' = <<>>
    /\ response' = <<>>
    /\ raised' = "none"
    /\ UNCHANGED svc_recipes
    /\ UNCHANGED NotMatch

\* recipe records without their id, for the service
MatchPool == {
    [name |-> <<"A">>, ingredients |-> <<<<"4", " ", "e", "g", "g", "s">>, <<"1", " ", "c", "u", "p", " ", "m", "i", "l", "k">>, <<"s", "a", "l", "t">>>>],
    [name |-> <<"B">>, ingredients |-> <<<<"4", " ", "e", "g", "g", "s">>, <<"2", " ", "c", "u", "p", "s", " ", "f", "l", "o", "u", "r">>>>],
    [name |-> <<"C">>, ingredients |-> <<<<"2", " ", "C", "u", "p", "s", " ", "M", "i", "l", "k", " ", "(", "w", "h", "o", "l", "e", ")">>, <<"S", "a", "l", "t", ",", " ", "t", "o", " ", "t", "a", "s", "t", "e">>>>],
    [name |-> <<"D">>, ingredients |-> <<>>] }

MatchCorpora ==
    UNION { { [i \in 1..n |-> f[i] @@ [id |-> i]] : f \in [1..n -> MatchPool] }
            : n \in 0..MaxMatchCorpus }

InitMatch ==
    /\ IdleDedup /\ IdleName /\ IdleFn /\ IdlePass /\ IdleTools /\ IdleImport
    /\ store \in MatchCorpora
    /\ svc_recipes = <<>>
    /\ svc_pc = "idle"
    /\ request = [ingredients |-> <<>>, limit |-> 0]
    /\ match_counts = <<>>
    /\ scored_recipes = <<>>
    /\ response = <<>>
    /\ raised = "none"

NextMatch ==
    \/ RecipeService
    \/ get_recipes_by_ingredients
    \/ route_return

SpecMatch == InitMatch /\ [][NextMatch]_vars

----------------------------------------------------------------------------
(* The three batch tools run from their main() on data/recipes.json, at the
   grain of their file operations, and a reader of the file *)

Tool_dedup == "deduplicate_recipes"
Tool_real == "real_popularity_system"
Tool_heuristic == "add_popularity_scores"
ToolNames == {Tool_dedup, Tool_real, Tool_heuristic}

\* python3 <tool>.py: a run starts
tool_start ==
    /\ tool.name = "none"
    /\ tool_runs < MaxToolRuns
    /\ \E t \in ToolNames : tool' = [name |-> t, pc |-> "start"]
    /\ tool_runs' = tool_runs + 1
    /\ pre_run' = store
    /\ confirmed' = "none"
    /\ tool_recipes' = <<>>
    /\ tool_out' = <<>>
    /\ UNCHANGED <<store, store_complete, backup, overwritten, reader_saw, matchVars>>
    /\ UNCHANGED NotTools

\* json.load(f) of the tools: the list, or JSONDecodeError on a partial text
tool_load(next) ==
    /\ IF store_complete
       THEN /\ tool_recipes' = store
            /\ tool' = [tool EXCEPT !.pc = next]
       ELSE /\ tool' = [tool EXCEPT !.pc = "aborted"]
            /\ UNCHANGED tool_recipes
    /\ UNCHANGED <<store, store_complete, backup, tool_out, confirmed, pre_run,
                   overwritten, tool_runs, reader_saw, matchVars>>
    /\ UNCHANGED NotTools

\* deduplicate_recipes.main: dedup.load_recipes(str(db_path))
main_load_recipes ==
    /\ tool = [name |-> Tool_dedup, pc |-> "start"]
    /\ tool_load("loaded")

\* deduplicate_recipes.main: dedup.find_duplicates() and the test of
\* stats['duplicates']; recipe['name'] raises KeyError on a record with no name
main_find_duplicates ==
    /\ tool = [name |-> Tool_dedup, pc |-> "loaded"]
    /\ tool' = [tool EXCEPT !.pc =
          IF \E i \in DOMAIN tool_recipes : "name" \notin DOMAIN tool_recipes[i]
          THEN "aborted"
          ELSE IF count_duplicates(group_recipes(<<>>, tool_recipes)) = 0
               THEN "exit"
               ELSE "confirm"]
    /\ UNCHANGED <<store, store_complete, backup, tool_recipes, tool_out, confirmed,
                   pre_run, overwritten, tool_runs, reader_saw, matchVars>>
    /\ UNCHANGED NotTools

\* the prompt of deduplicate_recipes.main with its answer not looked at
main_confirm_ignored ==
    /\ tool = [name |-> Tool_dedup, pc |-> "confirm"]
    /\ \E answer \in {"y", "N"} :
         /\ confirmed' = IF answer = "y" THEN "yes" ELSE "no"
         /\ tool' = [tool EXCEPT !.pc = "deduplicate"]
    /\ UNCHANGED <<store, store_complete, backup, tool_recipes, tool_out,
                   pre_run, overwritten, tool_runs, reader_saw, matchVars>>
    /\ UNCHANGED NotTools

\* deduplicate_recipes.main: input("Remove n duplicates? (y/N)")
main_confirm ==
    /\ tool = [name |-> Tool_dedup, pc |-> "confirm"]
    /\ \E answer \in {"y", "N"} :
         /\ confirmed' = IF answer = "y" THEN "yes" ELSE "no"
         /\ tool' = [tool EXCEPT !.pc = IF answer = "y" THEN "deduplicate" ELSE "exit"]
    /\ UNCHANGED <<store, store_complete, backup, tool_recipes, tool_out,
                   pre_run, overwritten, tool_runs, reader_saw, matchVars>>
    /\ UNCHANGED NotTools

\* deduplicate_recipes.main: deduplicated = dedup.deduplicate()
main_deduplicate ==
    /\ tool = [name |-> Tool_dedup, pc |-> "deduplicate"]
    /\ tool_out' = dedup_groups(group_recipes(<<>>, tool_recipes),
                       [deduplicated |-> <<>>, kept |-> 0, removed |-> 0,
                        log |-> <<>>]).deduplicated
    /\ tool' = [tool EXCEPT !.pc = "backup"]
    /\ UNCHANGED <<store, store_complete, backup, tool_recipes, confirmed,
                   pre_run, overwritten, tool_runs, reader_saw, matchVars>>
    /\ UNCHANGED NotTools

\* save_recipes: json.dump(self.recipes) to recipes.before_dedup.json
save_recipes_backup ==
    /\ tool = [name |-> Tool_dedup, pc |-> "backup"]
    /\ backup' = tool_recipes
    /\ tool' = [tool EXCEPT !.pc = "write"]
    /\ UNCHANGED <<store, store_complete, tool_recipes, tool_out, confirmed,
                   pre_run, overwritten, tool_runs, reader_saw, matchVars>>
    /\ UNCHANGED NotTools

\* real_popularity_system.main: input("Continue? (yes/no)")
real_main_confirm ==
    /\ tool = [name |-> Tool_real, pc |-> "start"]
    /\ \E answer \in {"yes", "no"} :
         /\ confirmed' = answer
         /\ tool' = [tool EXCEPT !.pc = IF answer = "yes" THEN "load" ELSE "exit"]
    /\ UNCHANGED <<store, store_complete, backup, tool_recipes, tool_out,
                   pre_run, overwritten, tool_runs, reader_saw, matchVars>>
    /\ UNCHANGED NotTools

\* score_all_recipes: json.load(f)
real_main_load ==
    /\ tool = [name |-> Tool_real, pc |-> "load"]
    /\ tool_load("loaded")

\* score_all_recipes: the loop and the sort, with pytrends not installed
real_main_score ==
    /\ tool = [name |-> Tool_real, pc |-> "loaded"]
    /\ tool_out' = sort_by_popularity(
          [i \in DOMAIN tool_recipes |->
              with_new_score(tool_recipes[i],
                  calculate_real_popularity(tool_recipes[i],
                      get_interest_score(pytrends, [kind |-> "error"])),
                  tool_runs)])
    /\ tool' = [tool EXCEPT !.pc = "write"]
    /\ UNCHANGED <<store, store_complete, backup, tool_recipes, confirmed,
                   pre_run, overwritten, tool_runs, reader_saw, matchVars>>
    /\ UNCHANGED NotTools

\* add_popularity_to_recipes: json.load(f)
add_popularity_load ==
    /\ tool = [name |-> Tool_heuristic, pc |-> "start"]
    /\ tool_load("loaded")

\* add_popularity_to_recipes: the loop and the sort
add_popularity_score ==
    /\ tool = [name |-> Tool_heuristic, pc |-> "loaded"]
    /\ tool_out' = sort_by_popularity(
          [i \in DOMAIN tool_recipes |->
              dict_set(tool_recipes[i], "popularity_score",
                       calculate_popularity_score(tool_recipes[i]))])
    /\ tool' = [tool EXCEPT !.pc = "write"]
    /\ UNCHANGED <<store, store_complete, backup, tool_recipes, confirmed,
                   pre_run, overwritten, tool_runs, reader_saw, matchVars>>
    /\ UNCHANGED NotTools

\* open(path, 'w') of the three tools: the live file is truncated, or the
\* open raises OSError and the file is as it was
open_for_write ==
    /\ tool.name \in ToolNames /\ tool.pc = "write"
    /\ \E opened \in BOOLEAN :
         IF opened
         THEN /\ store' = tool_out
              /\ store_complete' = FALSE
              /\ overwritten' = overwritten \cup {pre_run}
              /\ tool' = [tool EXCEPT !.pc = "writing"]
         ELSE /\ tool' = [tool EXCEPT !.pc = "io_error"]
              /\ UNCHANGED <<store, store_complete, overwritten>>
    /\ UNCHANGED <<backup, tool_recipes, tool_out, confirmed, pre_run,
                   tool_runs, reader_saw, matchVars>>
    /\ UNCHANGED NotTools

\* json.dump(recipes, f) and the close of the file: the whole text is written
json_dump ==
    /\ tool.name \in ToolNames /\ tool.pc = "writing"
    /\ store_complete' = TRUE
    /\ tool' = [tool EXCEPT !.pc = "done"]
    /\ UNCHANGED <<store, backup, tool_recipes, tool_out, confirmed, pre_run,
                   overwritten, tool_runs, reader_saw, matchVars>>
    /\ UNCHANGED NotTools

\* json.dump raises OSError part-way (disk full): the exception leaves main
json_dump_fails ==
    /\ tool.name \in ToolNames /\ tool.pc = "writing"
    /\ tool' = [tool EXCEPT !.pc = "io_error"]
    /\ UNCHANGED <<store, store_complete, backup, tool_recipes, tool_out, confirmed,
                   pre_run, overwritten, tool_runs, reader_saw, matchVars>>
    /\ UNCHANGED NotTools

\* the process of the tool ends
tool_exit ==
    /\ tool.pc \in {"exit", "aborted", "done", "io_error"}
    /\ tool' = [name |-> "none", pc |-> "none"]
    /\ UNCHANGED <<store, store_complete, backup, tool_recipes, tool_out, confirmed,
                   pre_run, overwritten, tool_runs, reader_saw, matchVars>>
    /\ UNCHANGED NotTools

\* RecipeService.load_recipes in the running application: json.load(f), any
\* exception giving an empty list
reader_load ==
    /\ svc_pc = "idle"
    /\ svc_recipes' = IF store_complete THEN store ELSE <<>>
    /\ reader_saw' = IF store_complete THEN "whole" ELSE "partial"
    /\ svc_pc' = "ready"
    /\ UNCHANGED <<store, store_complete, backup, tool, tool_recipes, tool_out,
                   confirmed, pre_run, overwritten, tool_runs>>
    /\ UNCHANGED <<request, match_counts, scored_recipes, response, raised>>
    /\ UNCHANGED <<recipes, groups, stats, deduplicated, log, pc, run,
                   nameVars, fnVars, passVars, importVars>>

\* the application is restarted
reader_restart ==
    /\ svc_pc = "ready"
    /\ svc_recipes' = <<>>
    /\ reader_saw' = "none"
    /\ svc_pc' = "idle"
    /\ UNCHANGED <<store, store_complete, backup, tool, tool_recipes, tool_out,
                   confirmed, pre_run, overwritten, tool_runs>>
    /\ UNCHANGED <<request, match_counts, scored_recipes, response, raised>>
    /\ UNCHANGED <<recipes, groups, stats, deduplicated, log, pc, run,
                   nameVars, fnVars, passVars, importVars>>

\* recipe records without their id, for the tools: two spellings of one
\* recipe and a record with no name
ToolPool == {
    [name |-> Name_TheBestChickenSoup, source |-> Src_Curated,
     ingredients |-> Items(5), instructions |-> Items(3),
     description |-> Chars(4), tags |-> Items(2)],
    [name |-> Name_ChickenSoup, source |-> Src_TheMealDB_api, image_url |-> Chars(4),
     ingredients |-> Items(10), instructions |-> Items(4),
     description |-> <<>>, tags |-> <<>>],
    [source |-> Src_MyFridge, ingredients |-> Items(2), instructions |-> Items(1)] }

ToolCorpora ==
    UNION { { [i \in 1..n |-> f[i] @@ [id |-> i]] : f \in [1..n -> ToolPool] }
            : n \in 0..MaxToolCorpus }

InitTools ==
    /\ IdleDedup /\ IdleName /\ IdleFn /\ IdlePass /\ IdleMatch /\ IdleTools /\ IdleImport
    /\ store \in ToolCorpora

NextTools ==
    \/ tool_start
    \/ main_load_recipes
    \/ main_find_duplicates
    \/ main_confirm
    \/ main_deduplicate
    \/ save_recipes_backup
    \/ real_main_confirm
    \/ real_main_load
    \/ real_main_score
    \/ add_popularity_load
    \/ add_popularity_score
    \/ open_for_write
    \/ json_dump
    \/ json_dump_fails
    \/ tool_exit
    \/ reader_load
    \/ reader_restart

SpecTools == InitTools /\ [][NextTools]_vars

----------------------------------------------------------------------------
(* The importers run from their main() on data/recipes.json:
   api_recipe_importer.py, batch_import_foodcom.py, import_datasets.py and
   add_more_recipes.py. Ids are numbered: 'themealdb_<n>' is 100 + n,
   'foodcom_<n>' is 200 + n, the curated ids are 301, 302, and '' is 0. *)

Imp_api == "api_recipe_importer"
Imp_foodcom == "batch_import_foodcom"
Imp_datasets == "import_datasets"
Imp_more == "add_more_recipes"
\* the importers with a duplicate check on names, and the ones that merge by id
NameCheckingImporters == {Imp_api, Imp_foodcom}
MergingImporters == {Imp_datasets, Imp_more}

\* f"themealdb_{meal['idMeal']}", f"foodcom_{row.get('id', '')}"
themealdb_id(n) == 100 + n
foodcom_id(n) == 200 + n
\* recipe.get('id', '') on a record without id
NoId == 0

\* ignore_words of the two _normalize_name methods
ignore_words == {
    <<"t", "h", "e">>, <<"a">>, <<"a", "n">>,
    <<"p", "e", "r", "f", "e", "c", "t">>, <<"c", "l", "a", "s", "s", "i", "c">>,
    <<"e", "a", "s", "y">>, <<"s", "i", "m", "p", "l", "e">>, <<"b", "e", "s", "t">>,
    <<"h", "o", "m", "e", "m", "a", "d", "e">>, <<"u", "l", "t", "i", "m", "a", "t", "e">>,
    <<"a", "u", "t", "h", "e", "n", "t", "i", "c">>,
    <<"t", "r", "a", "d", "i", "t", "i", "o", "n", "a", "l">>,
    <<"q", "u", "i", "c", "k">>, <<"d", "e", "l", "i", "c", "i", "o", "u", "s">>,
    <<"a", "m", "a", "z", "i", "n", "g">>, <<"f", "a", "v", "o", "r", "i", "t", "e">> }

\* the common part of the two methods: lower, strip, drop the ignore words,
\* drop the special characters, collapse the blanks, '' for a short result
normalize_words(name) ==
    LET normalized == str_strip(str_lower(name))
        words      == SelectSeq(str_split(normalized), LAMBDA w : w \notin ignore_words)
        nospecial  == RemoveSpecialChars(str_join(words))
        collapsed  == str_strip(CollapseSpaces(nospecial))
    IN  IF Len(collapsed) >= 3 THEN collapsed ELSE <<>>

\* APIRecipeImporter._normalize_name
api_normalize_name(name) ==
    IF name = <<>> \/ Len(name) < 3 THEN <<>> ELSE normalize_words(name)

\* FoodComImporter._normalize_name
foodcom_normalize_name(name) ==
    IF name = <<>> THEN <<>> ELSE normalize_words(name)

\* self._normalize_name of the importer that is running
importer_normalize_name(imp, name) ==
    IF imp = Imp_api THEN api_normalize_name(name) ELSE foodcom_normalize_name(name)

\* is_duplicate with the id looked up whatever the name is
is_duplicate_id_first(imp, recipe_name, recipe_id, names, ids) ==
    IF recipe_id \in ids THEN TRUE
    ELSE IF recipe_name = <<>> \/ Len(str_strip(recipe_name)) < 3 THEN FALSE
    ELSE LET normalized == importer_normalize_name(imp, recipe_name)
         IN  normalized # <<>> /\ normalized \in names

\* is_duplicate of both importers: a short name is never a duplicate
is_duplicate(imp, recipe_name, recipe_id, names, ids) ==
    IF recipe_name = <<>> \/ Len(str_strip(recipe_name)) < 3 THEN FALSE
    ELSE IF recipe_id \in ids THEN TRUE
    ELSE LET normalized == importer_normalize_name(imp, recipe_name)
         IN  normalized # <<>> /\ normalized \in names

\* LegalRecipeImporter._clean_ingredients
clean_ingredients(ingredients) ==
    SelectSeq([i \in DOMAIN ingredients |-> str_strip(ingredients[i])],
              LAMBDA ing : ing # <<>>)

method_verbs == {
    <<"h", "e", "a", "t">>, <<"c", "o", "o", "k">>, <<"b", "a", "k", "e">>,
    <<"b", "o", "i", "l">>, <<"s", "i", "m", "m", "e", "r">>, <<"f", "r", "y">>,
    <<"s", "a", "u", "t", "é">>, <<"m", "i", "x">>, <<"w", "h", "i", "s", "k">>,
    <<"s", "t", "i", "r">>, <<"b", "l", "e", "n", "d">>, <<"c", "h", "o", "p">>,
    <<"d", "i", "c", "e">>, <<"s", "l", "i", "c", "e">>, <<"a", "d", "d">>,
    <<"p", "o", "u", "r">>, <<"s", "e", "a", "s", "o", "n">>, <<"s", "e", "r", "v", "e">>,
    <<"g", "a", "r", "n", "i", "s", "h">>, <<"c", "o", "m", "b", "i", "n", "e">> }

\* LegalRecipeImporter._extract_basic_methods
extract_basic_methods(steps) ==
    LET basic_methods ==
            SelectSeq(steps, LAMBDA step :
                \E verb \in method_verbs : IsSubstring(verb, str_lower(step)))
    IN  SubSeq(basic_methods, 1, Min(10, Len(basic_methods)))

\* LegalRecipeImporter._estimate_difficulty
estimate_difficulty(cook_time, prep_time, num_ingredients) ==
    IF cook_time + prep_time <= 20 /\ num_ingredients <= 8 THEN "easy"
    ELSE IF cook_time + prep_time <= 45 /\ num_ingredients <= 12 THEN "medium"
    ELSE "hard"

FactsSuffix ==
    <<" ", "(", "f", "a", "c", "t", "s", ")", ",", " ", "M", "y", "F", "r", "i", "d", "g", "e",
      " ", "(", "c", "o", "n", "t", "e", "n", "t", ")">>

\* LegalRecipeImporter.create_legal_recipe with _create_simple_content; the
\* texts it writes are placeholders here: a description longer than 20
\* characters, and one instruction for the ingredients, one for each of the
\* first five basic methods, one for serving
create_legal_recipe(raw_recipe) ==
    LET ingredients == clean_ingredients(dict_get(raw_recipe, "ingredients", <<>>))
        basic_steps == extract_basic_methods(dict_get(raw_recipe, "steps", <<>>))
        cook_time   == dict_get(raw_recipe, "cook_time", 30)
        prep_time   == dict_get(raw_recipe, "prep_time", 10)
    IN  [id           |-> raw_recipe.id,
         source       |-> dict_get(raw_recipe, "source", Src_Curated) \o FactsSuffix,
         name         |-> str_strip(dict_get(raw_recipe, "name", <<>>)),
         description  |-> Chars(21),
         prep_time    |-> prep_time,
         cook_time    |-> cook_time,
         total_time   |-> prep_time + cook_time,
         servings     |-> dict_get(raw_recipe, "servings", 4),
         difficulty   |-> estimate_difficulty(cook_time, prep_time, Len(ingredients)),
         ingredients  |-> ingredients,
         instructions |-> Items(2 + Min(5, Len(basic_steps))),
         tags         |-> dict_get(raw_recipe, "tags", <<>>),
         cuisine      |-> dict_get(raw_recipe, "cuisine", "International"),
         category     |-> dict_get(raw_recipe, "category", "main"),
         image_url    |-> <<>>]

\* the row could not be parsed: parse_foodcom_row returned None
UnparsedRow == [parsed |-> FALSE]

\* the checks of import_batch on a parsed row, before the duplicate check
row_is_valid(raw_recipe) ==
    /\ Len(str_strip(dict_get(raw_recipe, "name", <<>>))) >= 3
    /\ Len(dict_get(raw_recipe, "ingredients", <<>>)) >= 2
    /\ Len(dict_get(raw_recipe, "steps", <<>>)) >= 2

\* the importer's state after one more recipe was taken
import_accept(imp, acc, raw_recipe) ==
    LET legal_recipe == create_legal_recipe(raw_recipe)
    IN  [acc EXCEPT !.new_recipes = Append(@, legal_recipe),
                    !.stats.imported = @ + 1,
                    !.names = @ \cup {importer_normalize_name(imp, legal_recipe.name)},
                    !.ids = @ \cup {legal_recipe.id}]

\* one turn of the loop of import_recipes (the API importer)
import_recipes_step(acc, raw_recipe, limit) ==
    IF acc.stopped \/ Len(acc.new_recipes) >= limit THEN [acc EXCEPT !.stopped = TRUE]
    ELSE IF is_duplicate(Imp_api, raw_recipe.name, raw_recipe.id, acc.names, acc.ids)
         THEN [acc EXCEPT !.stats.duplicates = @ + 1]
         ELSE import_accept(Imp_api, acc, raw_recipe)

\* one turn of the loop of import_batch (the Food.com importer)
import_batch_step(acc, raw_recipe, limit) ==
    LET checked == [acc EXCEPT !.rows_checked = @ + 1]
    IN  IF acc.stopped THEN acc
        ELSE IF Len(acc.new_recipes) >= limit
                  \/ (checked.rows_checked >= limit * 20
                        /\ Len(acc.new_recipes) < limit \div 10)
             THEN [checked EXCEPT !.stopped = TRUE]
        ELSE IF raw_recipe = UnparsedRow
             THEN [checked EXCEPT !.stats.errors = @ + 1]
        ELSE IF ~row_is_valid(raw_recipe)
             THEN [checked EXCEPT !.stats.processed = @ + 1, !.stats.errors = @ + 1]
        ELSE IF is_duplicate(Imp_foodcom, raw_recipe.name, raw_recipe.id,
                             acc.names, acc.ids)
             THEN [checked EXCEPT !.stats.processed = @ + 1, !.stats.duplicates = @ + 1]
             ELSE import_accept(Imp_foodcom,
                                [checked EXCEPT !.stats.processed = @ + 1], raw_recipe)

RECURSIVE import_loop(_, _, _, _)
import_loop(imp, acc, raws, limit) ==
    IF raws = <<>> THEN acc
    ELSE import_loop(imp,
            IF imp = Imp_api THEN import_recipes_step(acc, Head(raws), limit)
                             ELSE import_batch_step(acc, Head(raws), limit),
            Tail(raws), limit)

\* unique_new = [r for r in new_recipes if r['id'] not in existing_ids]
unique_new(recipes_in, ids) == SelectSeq(recipes_in, LAMBDA r : r.id \notin ids)

\* a merge that writes only the new recipes
all_recipes_new_only(existing, new) == new

\* all_recipes = existing_recipes + new_recipes
all_recipes(existing, new) == existing \o new

Name_MomsChickenSoup ==
    <<"M", "o", "m", "'", "s", " ", "C", "h", "i", "c", "k", "e", "n", " ", "S", "o", "u", "p">>
Name_Ox == <<"O", "x">>
Step_Mix == <<"M", "i", "x", " ", "w", "e", "l", "l">>
Step_Wait == <<"W", "a", "i", "t">>

Meal_Ox ==
    [id |-> themealdb_id(1), source |-> Src_TheMealDB, name |-> Name_Ox,
     ingredients |-> Items(2), steps |-> <<Step_Mix>>,
     prep_time |-> 10, cook_time |-> 20, servings |-> 4,
     cuisine |-> "British", category |-> "main", tags |-> Items(2)]

Meal_ChickenSoup ==
    [id |-> themealdb_id(2), source |-> Src_TheMealDB, name |-> Name_ChickenSoup,
     ingredients |-> Items(2), steps |-> <<Step_Mix, Step_Wait>>,
     prep_time |-> 10, cook_time |-> 20, servings |-> 4,
     cuisine |-> "British", category |-> "main", tags |-> Items(2)]

\* what _parse_themealdb_recipe makes of the meals the API answers with, in
\* the order of the answer: a meal with a two-letter name, then others
TheMealDB == <<Meal_Ox, Meal_ChickenSoup>>

\* fetch_themealdb(limit): at most limit of them
fetch_themealdb(limit) == SubSeq(TheMealDB, 1, Min(limit, Len(TheMealDB)))

Src_FoodCom ==
    <<"F", "o", "o", "d", ".", "c", "o", "m", " ", "D", "a", "t", "a", "s", "e", "t">>

Row(n, recipe_name, n_ingredients) ==
    [id |-> foodcom_id(n), source |-> Src_FoodCom, name |-> recipe_name,
     ingredients |-> Items(n_ingredients), steps |-> <<Step_Mix, Step_Wait>>,
     cook_time |-> 20, prep_time |-> 10, servings |-> 4,
     cuisine |-> "International", category |-> "soup", tags |-> Items(1)]

\* what parse_foodcom_row makes of the rows of RAW_recipes.csv, in the order
\* of the file: a row that cannot be parsed, a row with one ingredient, two
\* rows whose names differ by "Mom's", a row whose name is all stop words
RAW_recipes ==
    << UnparsedRow,
       Row(1, Name_Pasta, 1),
       Row(2, Name_MomsChickenSoup, 2),
       Row(3, Name_ChickenSoup, 3),
       Row(4, Name_TheBest, 2) >>

\* what import_themealdb builds from the API's answer: the meal the API
\* importer knows as themealdb_2, and another one
import_themealdb == <<
    [id |-> themealdb_id(2), source |-> Src_TheMealDB, name |-> Name_ChickenSoup,
     description |-> Chars(21), prep_time |-> 10, cook_time |-> 30, total_time |-> 40,
     servings |-> 4, difficulty |-> "medium", ingredients |-> Items(2),
     instructions |-> Items(2), tags |-> Items(2), cuisine |-> "British",
     category |-> "main", image_url |-> Chars(4)],
    [id |-> themealdb_id(4), source |-> Src_TheMealDB, name |-> Name_Pasta,
     description |-> Chars(21), prep_time |-> 10, cook_time |-> 30, total_time |-> 40,
     servings |-> 4, difficulty |-> "medium", ingredients |-> Items(3),
     instructions |-> Items(2), tags |-> Items(2), cuisine |-> "Italian",
     category |-> "main", image_url |-> Chars(4)] >>

\* get_additional_recipes(): the head of the curated list
get_additional_recipes == <<
    [id |-> 301, source |-> Src_Curated, name |-> Name_AClassic,
     description |-> Chars(21), prep_time |-> 5, cook_time |-> 15, total_time |-> 20,
     servings |-> 4, difficulty |-> "medium", ingredients |-> Items(7),
     instructions |-> Items(8), tags |-> Items(3), cuisine |-> "Italian",
     category |-> "main", image_url |-> Chars(4)] >>

\* what a run of the importer is given to work on
Fetched(imp, limit) ==
    IF imp = Imp_api THEN fetch_themealdb(limit)
    ELSE IF imp = Imp_foodcom THEN RAW_recipes
    ELSE IF imp = Imp_datasets THEN import_themealdb
    ELSE get_additional_recipes

ImporterNames == NameCheckingImporters \cup MergingImporters

NewImportStats == [processed |-> 0, imported |-> 0, duplicates |-> 0, errors |-> 0]

\* python3 <importer>.py --limit <limit>: a run starts
import_start ==
    /\ importer.name = "none"
    /\ import_runs < MaxImportRuns
    /\ \E imp \in ImporterNames :
         \E limit \in (IF imp \in NameCheckingImporters THEN 1..MaxImportLimit
                                                        ELSE {0}) :
            importer' = [name |-> imp, pc |-> "start", limit |-> limit]
    /\ raw_recipes' = <<>>
    /\ import_runs' = import_runs + 1
    /\ existing_recipes' = <<>>
    /\ existing_names' = {}
    /\ existing_ids' = {}
    /\ new_recipes' = <<>>
    /\ import_stats' = NewImportStats
    /\ UNCHANGED <<store, import_backup, import_log>>
    /\ UNCHANGED NotImport

\* load_existing_recipes, and the json.load of the two main() that merge:
\* the list and the lookup sets, or JSONDecodeError on a partial text
import_load ==
    /\ importer.name \in ImporterNames /\ importer.pc = "start"
    /\ IF store_complete
       THEN /\ existing_recipes' = store
            /\ existing_names' =
                  IF importer.name \in NameCheckingImporters
                  THEN {importer_normalize_name(importer.name,
                            dict_get(store[i], "name", <<>>)) : i \in DOMAIN store}
                  ELSE {}
            /\ existing_ids' = {dict_get(store[i], "id", NoId) : i \in DOMAIN store}
            /\ importer' = [importer EXCEPT !.pc = "loaded"]
       ELSE /\ importer' = [importer EXCEPT !.pc = "aborted"]
            /\ UNCHANGED <<existing_recipes, existing_names, existing_ids>>
    /\ UNCHANGED <<store, raw_recipes, new_recipes, import_stats, import_backup,
                   import_runs, import_log>>
    /\ UNCHANGED NotImport

\* import_recipes / import_batch, and main's test of what they returned
import_recipes ==
    /\ importer.name \in NameCheckingImporters /\ importer.pc = "loaded"
    /\ LET fetched == Fetched(importer.name, importer.limit)
           out == import_loop(importer.name,
                     [new_recipes |-> <<>>, names |-> existing_names,
                      ids |-> existing_ids, stats |-> import_stats,
                      rows_checked |-> 0, stopped |-> FALSE],
                     fetched, importer.limit)
       IN  /\ raw_recipes' = fetched
           /\ new_recipes' = out.new_recipes
           /\ existing_names' = out.names
           /\ existing_ids' = out.ids
           /\ import_stats' = out.stats
           /\ importer' = [importer EXCEPT !.pc =
                 IF out.new_recipes # <<>> THEN "backup" ELSE "exit"]
    /\ UNCHANGED <<store, existing_recipes, import_backup, import_runs, import_log>>
    /\ UNCHANGED NotImport

\* import_datasets.main / add_more_recipes.main: the filter on existing ids
merge_unique_new ==
    /\ importer.name \in MergingImporters /\ importer.pc = "loaded"
    /\ raw_recipes' = Fetched(importer.name, importer.limit)
    /\ new_recipes' = unique_new(raw_recipes', existing_ids)
    /\ importer' = [importer EXCEPT !.pc = "write"]
    /\ UNCHANGED <<store, existing_recipes, existing_names, existing_ids,
                   import_stats, import_backup, import_runs, import_log>>
    /\ UNCHANGED NotImport

\* save_recipes of the two importers: json.dump(self.existing_recipes) to
\* recipes.backup.json
import_save_backup ==
    /\ importer.name \in NameCheckingImporters /\ importer.pc = "backup"
    /\ import_backup' = existing_recipes
    /\ importer' = [importer EXCEPT !.pc = "write"]
    /\ UNCHANGED <<store, raw_recipes, existing_recipes, existing_names, existing_ids,
                   new_recipes, import_stats, import_runs, import_log>>
    /\ UNCHANGED NotImport

\* open(db_path, 'w') of the importers: the live file is truncated
import_open_for_write ==
    /\ importer.name \in ImporterNames /\ importer.pc = "write"
    /\ store' = all_recipes(existing_recipes, new_recipes)
    /\ store_complete' = FALSE
    /\ import_log' = Append(import_log,
          [importer |-> importer.name, existing |-> existing_recipes,
           new |-> new_recipes, replaced |-> store])
    /\ importer' = [importer EXCEPT !.pc = "writing"]
    /\ UNCHANGED <<raw_recipes, existing_recipes, existing_names, existing_ids,
                   new_recipes, import_stats, import_backup, import_runs>>
    /\ UNCHANGED <<dedupVars, nameVars, fnVars, passVars, matchVars>>
    /\ UNCHANGED <<tool, tool_recipes, tool_out, confirmed, pre_run, overwritten,
                   tool_runs, reader_saw>>

\* json.dump(all_recipes, f) and the close of the file
import_json_dump ==
    /\ importer.name \in ImporterNames /\ importer.pc = "writing"
    /\ store_complete' = TRUE
    /\ importer' = [importer EXCEPT !.pc = "done"]
    /\ UNCHANGED <<store, raw_recipes, existing_recipes, existing_names, existing_ids,
                   new_recipes, import_stats, import_backup, import_runs, import_log>>
    /\ UNCHANGED <<dedupVars, nameVars, fnVars, passVars, matchVars>>
    /\ UNCHANGED <<tool, tool_recipes, tool_out, confirmed, pre_run, overwritten,
                   tool_runs, reader_saw>>

\* the process of the importer ends
import_exit ==
    /\ importer.pc \in {"exit", "aborted", "done"}
    /\ importer' = [name |-> "none", pc |-> "none", limit |-> 0]
    /\ UNCHANGED <<store, raw_recipes, existing_recipes, existing_names, existing_ids,
                   new_recipes, import_stats, import_backup, import_runs, import_log>>
    /\ UNCHANGED NotImport

\* the stores the importers and the tools are started on: two spellings of
\* one recipe, with the ids 1, 2, ...
ImportCorpora ==
    UNION { { [i \in 1..n |-> f[i] @@ [id |-> i]] :
                f \in [1..n -> {r \in ToolPool : "name" \in DOMAIN r}] }
            : n \in 0..MaxImportCorpus }

InitImport ==
    /\ IdleDedup /\ IdleName /\ IdleFn /\ IdlePass /\ IdleMatch /\ IdleTools /\ IdleImport
    /\ store \in ImportCorpora

\* the runs of one behaviour, tools and importers together, are bounded
RunBudget == tool_runs + import_runs < MaxSequence

\* a tool is started while no importer is running
tool_start_alone ==
    /\ RunBudget
    /\ importer.name = "none"
    /\ tool_start

\* an importer is started while no tool is running
import_start_alone ==
    /\ RunBudget
    /\ tool.name = "none"
    /\ import_start

\* a tool is started, whatever else is running
tool_start_any ==
    /\ RunBudget
    /\ tool_start

\* an importer is started, whatever else is running
import_start_any ==
    /\ RunBudget
    /\ import_start

\* the steps of a run that was started, tool or importer
RunSteps ==
    \/ main_load_recipes
    \/ main_find_duplicates
    \/ main_confirm
    \/ main_deduplicate
    \/ save_recipes_backup
    \/ real_main_confirm
    \/ real_main_load
    \/ real_main_score
    \/ add_popularity_load
    \/ add_popularity_score
    \/ open_for_write
    \/ json_dump
    \/ json_dump_fails
    \/ tool_exit
    \/ import_load
    \/ import_recipes
    \/ merge_unique_new
    \/ import_save_backup
    \/ import_open_for_write
    \/ import_json_dump
    \/ import_exit

\* the tools and the importers run one after the other
NextImport ==
    \/ tool_start_alone
    \/ import_start_alone
    \/ RunSteps

SpecImport == InitImport /\ [][NextImport]_vars

\* a tool and an importer may run at the same time: nothing in the code
\* keeps a second process from starting
NextOverlap ==
    \/ tool_start_any
    \/ import_start_any
    \/ RunSteps

SpecOverlap == InitImport /\ [][NextOverlap]_vars

----------------------------------------------------------------------------
(* Claims about the duplicate resolver, checked under Spec *)

\* the positions of the loaded corpus whose name has the canonical key k
SameKey(k) == {j \in DOMAIN recipes : normalize_name(recipes[j].name) = k}

\* C1: running the resolver on its own output returns that corpus unchanged,
\* finds 0 duplicates and forms only groups of one member.
C1_Idempotent ==
    (pc = "deduped" /\ run >= 1) =>
        /\ deduplicated = recipes
        /\ deduplicated = store
        /\ stats.duplicates = 0
        /\ stats.removed = 0
        /\ \A i \in DOMAIN groups : Len(groups[i].members) = 1

\* a second run has finished on a store from which the first run removed records
C1_Witness ==
    /\ pc = "deduped"
    /\ run = 1
    /\ Len(backup) > Len(store)
    /\ Len(store) >= 2

\* C2: a recipe whose canonical key is shorter than 3 characters is never
\* grouped with another recipe and is never removed by the resolver.
C2_ShortKeyNeverGrouped ==
    /\ pc \in {"grouped", "deduped"} =>
         \A i \in DOMAIN groups :
            Len(groups[i].key) < 3 => Len(groups[i].members) = 1
    /\ pc = "deduped" =>
         \A j \in DOMAIN recipes :
            Len(normalize_name(recipes[j].name)) < 3 =>
                \E k \in DOMAIN deduplicated : deduplicated[k] = recipes[j]

\* C3: of the records sharing a canonical key exactly one survives; it has the
\* maximum resolution score of the group and, among the members with that
\* score, it is the first in the input corpus.
C3_SurvivorIsFirstMax ==
    pc = "deduped" =>
        /\ \A j \in DOMAIN recipes :
             \E k \in DOMAIN deduplicated :
                normalize_name(deduplicated[k].name) = normalize_name(recipes[j].name)
        /\ \A k \in DOMAIN deduplicated :
             LET same == SameKey(normalize_name(deduplicated[k].name))
             IN  \E i \in same :
                    /\ recipes[i] = deduplicated[k]
                    /\ \A j \in same :
                         /\ get_quality_score(recipes[j]) <= get_quality_score(recipes[i])
                         /\ get_quality_score(recipes[j]) = get_quality_score(recipes[i])
                                => i <= j
                         /\ j # i => \A m \in DOMAIN deduplicated :
                                        deduplicated[m] # recipes[j]

\* a group whose two best members tie, and a group whose later member wins on
\* source priority, ingredients and image
C3_Witness ==
    /\ pc = "deduped"
    /\ \E i, j \in DOMAIN recipes :
         /\ i < j
         /\ normalize_name(recipes[i].name) = normalize_name(recipes[j].name)
         /\ get_quality_score(recipes[i]) = get_quality_score(recipes[j])
         /\ \E k \in DOMAIN deduplicated : deduplicated[k] = recipes[i]
    /\ \E i, j \in DOMAIN recipes :
         /\ i < j
         /\ normalize_name(recipes[i].name) = normalize_name(recipes[j].name)
         /\ get_source_score(recipes[i]) < get_source_score(recipes[j])
         /\ Len(recipes[i].ingredients) < Len(recipes[j].ingredients)
         /\ "image_url" \notin DOMAIN recipes[i] /\ "image_url" \in DOMAIN recipes[j]
         /\ \E k \in DOMAIN deduplicated : deduplicated[k] = recipes[j]

\* the ids an entry of the log lets its reader take for the survivor: the
\* listed members with the name and score of the entry's "Keeping" line
LogSurvivorIds(e) ==
    {e.members[i].id : i \in {n \in DOMAIN e.members :
                                 /\ e.members[n].name = e.keeping.name
                                 /\ e.members[n].score = e.keeping.score}}

LogMemberIds(e) == {e.members[i].id : i \in DOMAIN e.members}

\* C4: the log has one entry per group with several members, and the entry
\* gives the group key, the id of the survivor and the ids of the removed
\* members, which together are exactly the ids of the group.
C4_AuditLogGivesSurvivorId ==
    pc = "deduped" =>
        /\ Len(log) = Cardinality({i \in DOMAIN groups : Len(groups[i].members) > 1})
        /\ \A n \in DOMAIN log :
             \E i \in DOMAIN groups :
                /\ groups[i].key = log[n].normalized
                /\ LogMemberIds(log[n]) =
                      {groups[i].members[m].id : m \in DOMAIN groups[i].members}
                /\ \E k \in DOMAIN deduplicated :
                      /\ LogSurvivorIds(log[n]) = {deduplicated[k].id}
                      /\ Cardinality(LogMemberIds(log[n]) \ {deduplicated[k].id})
                            = log[n].removing

\* C25: among the records of one canonical key, a record is not kept when
\* the group holds a record from a source of higher priority, whatever the
\* image, ingredient, step, description and tag bonuses of the two are.
C25_SourcePriorityFirst ==
    pc = "deduped" =>
        \A i, j \in DOMAIN recipes :
            (/\ normalize_name(recipes[i].name) = normalize_name(recipes[j].name)
             /\ get_source_score(recipes[i]) > get_source_score(recipes[j]))
            => \A k \in DOMAIN deduplicated : deduplicated[k] # recipes[j]

\* the canonical keys of the loaded corpus
LoadedKeys == {normalize_name(recipes[i].name) : i \in DOMAIN recipes}

\* C27: after load, find_duplicates and deduplicate the counts agree:
\* kept + removed = original, removed = duplicates found, and the returned
\* corpus has kept records, one for each canonical key.
C27_CountsConsistent ==
    pc = "deduped" =>
        /\ stats.original = Len(recipes)
        /\ stats.kept + stats.removed = stats.original
        /\ stats.removed = stats.duplicates
        /\ Len(deduplicated) = stats.kept
        /\ stats.kept = Cardinality(LoadedKeys)

\* a run that merged a group of three and kept two records
C27_Witness ==
    /\ pc = "deduped"
    /\ stats.original = 3
    /\ stats.duplicates = 1
    /\ stats.removed = 1
    /\ stats.kept = 2
    /\ Len(deduplicated) = 2

----------------------------------------------------------------------------
(* Claims about the canonical name key, checked under SpecName *)

\* the number of whitespace-delimited tokens of s that are stop words
StopTokens(s) ==
    LET words == str_split(str_strip(str_lower(s)))
    IN  Cardinality({i \in DOMAIN words : words[i] \in IGNORE_WORDS})

\* C6 as stated: every spelling reached by inserting or removing stop-word
\* tokens, changing letter case, inserting or removing punctuation marks and
\* extra blanks has the key of the name as first written.
C6_KeyInsensitive == normalize_name(spelling) = normalize_name(spelling0)

\* C6 as amended: an edit of a stop-word token, of letter case or of an extra
\* blank keeps the key; an edit of a punctuation mark keeps it unless the mark
\* makes a token become, or stop being, a stop word; and "The Best Chicken
\* Soup" has the key of "Chicken Soup".
C6_KeyInsensitiveAmended ==
    /\ edit.kind \in {"stop_word", "case", "space"} =>
          normalize_name(spelling) = normalize_name(spellingPrev)
    /\ (edit.kind = "punctuation" /\ StopTokens(spelling) = StopTokens(spellingPrev)) =>
          normalize_name(spelling) = normalize_name(spellingPrev)
    /\ normalize_name(Name_TheBestChickenSoup) = normalize_name(Name_ChickenSoup)

\* "Chicken Soup" respelt with an inserted, capitalised stop word
C6_Witness ==
    /\ spelling0 = Name_ChickenSoup
    /\ nedits = 2
    /\ edit.kind = "case"
    /\ StopTokens(spelling) = 1
    /\ normalize_name(spelling) = normalize_name(spelling0)
    /\ str_lower(spelling) # spelling

----------------------------------------------------------------------------
(* Claims about the scoring functions, checked under SpecFn *)

\* C5: for every recipe and every answer of the trend provider the quality
\* score lies in 0..100 points, and the real and the heuristic popularity
\* score lie in 0..100 points (0..1000 tenths).
C5_ScoresInRange ==
    /\ scores.fn = "calculate_quality_score" => (0 <= scores.score /\ scores.score <= 100)
    /\ scores.fn = "calculate_real_popularity" =>
          /\ 0 <= scores.google_trends /\ scores.google_trends <= 1000
          /\ 0 <= scores.score /\ scores.score <= 1000
          /\ 0 <= calculate_quality_score(subject)
          /\ calculate_quality_score(subject) <= 100
    /\ scores.fn = "calculate_popularity_score" =>
          (0 <= scores.score /\ scores.score <= 1000)

\* the most complete recipe scored with the provider's largest answer
C5_Witness ==
    /\ scores.fn = "calculate_real_popularity"
    /\ scores.available
    /\ scores.answer.kind = "ok"
    /\ scores.answer.recent.mean = 150
    /\ scores.google_trends = 1000
    /\ calculate_quality_score(subject) = 100
    /\ scores.score = 830

\* the recipe without its ingredient list: recipe.get('ingredients', []) is []
without_ingredients(recipe) == [k \in DOMAIN recipe \ {"ingredients"} |-> recipe[k]]

\* what the ingredient list of a recipe adds to its quality score
ingredient_credit(recipe) ==
    calculate_quality_score(recipe) - calculate_quality_score(without_ingredients(recipe))

\* C22: in the quality score a recipe with 3..15 ingredients gets the full
\* ingredient bonus, and a recipe with an ingredient count outside that band
\* gets a smaller credit that is not zero.
C22_IngredientBandCredit ==
    (scores.fn = "calculate_quality_score" /\ "ingredients" \in DOMAIN subject) =>
        LET count  == Len(subject.ingredients)
            credit == scores.score - calculate_quality_score(without_ingredients(subject))
            full   == ingredient_credit([subject EXCEPT !.ingredients = Items(3)])
        IN  /\ full > 0
            /\ IF 3 <= count /\ count <= 15 THEN credit = full
               ELSE 0 < credit /\ credit < full

----------------------------------------------------------------------------
(* Claims about the popularity pass, checked under SpecPass *)

\* C10: two scorings of the same recipe with the same trend, engagement and
\* recency values give the same popularity score, whenever they are made.
C10_Deterministic ==
    \A a, b \in scorings :
        (/\ a.id = b.id
         /\ a.google_trends = b.google_trends
         /\ a.platform_engagement = b.platform_engagement
         /\ a.recency = b.recency)
        => a.score = b.score

\* a record scored in two passes with the same signal values, the first time
\* with no score on it and the second time carrying the first pass's score
C10_Witness ==
    \E a, b \in scorings :
        /\ a.id = b.id
        /\ a.at < b.at
        /\ ~a.had_score /\ b.had_score
        /\ a.google_trends = b.google_trends
        /\ a.google_trends # 500
        /\ a.score = b.score


\* C11: a failure while scoring one record does not abort the pass: the pass
\* is never aborted, and when it has ended every loaded record whose scoring
\* does not fail carries, in the store, the score a scoring of it gave.
C11_FailureDoesNotAbortBatch ==
    /\ pass_pc # "aborted"
    /\ pass_pc = "done" =>
          \A k \in DOMAIN pass_recipes :
              ~calculate_quality_score_raises(pass_recipes[k]) =>
                  \E j \in DOMAIN store, a \in scorings :
                      /\ store[j].id = pass_recipes[k].id
                      /\ a.id = store[j].id
                      /\ ~a.raised
                      /\ dict_get(store[j], "popularity_last_updated", -1) = a.at
                      /\ dict_get(store[j], "popularity_score", -1) = a.score

\* C12: a scoring made while the trend provider is missing or raises uses the
\* neutral trend value 50, and the record gets the score computed with it.
C12_ProviderFailureGivesDefault ==
    \A a \in scorings :
        a.provider \in {"unavailable", "error"} =>
            /\ a.google_trends = 500
            /\ ~a.raised =>
                  /\ a.score = weighted_score(500, a.platform_engagement, a.quality, a.recency)
                  /\ \A k \in DOMAIN pass_recipes :
                        (/\ pass_recipes[k].id = a.id
                         /\ dict_get(pass_recipes[k], "popularity_last_updated", -1) = a.at)
                        => pass_recipes[k].popularity_score = a.score

\* a request to the provider raised, and the record of the scoring holds the
\* score computed with the default
C12_Witness ==
    \E a \in scorings, k \in DOMAIN pass_recipes :
        /\ a.provider = "error"
        /\ ~a.raised
        /\ pass_recipes[k].id = a.id
        /\ dict_get(pass_recipes[k], "popularity_last_updated", -1) = a.at
        /\ pass_recipes[k].popularity_score = a.score
        /\ trend_requests.sent

\* C14: when the pass is interrupted after k records, the k scores are in the
\* store, and no later run scores one of those records again.
C14_InterruptedScoresPersisted ==
    /\ pass_pc = "interrupted" =>
          \A k \in 1..(pass_i - 1) :
              \E j \in DOMAIN store :
                  /\ store[j].id = pass_recipes[k].id
                  /\ dict_get(store[j], "popularity_last_updated", -1)
                        = pass_recipes[k].popularity_last_updated
                  /\ dict_get(store[j], "popularity_score", -1)
                        = pass_recipes[k].popularity_score
    /\ \A a \in scorings : ~a.rescored

\* C15: any two consecutive requests to the trend provider are at least the
\* fixed delay apart, whether the earlier one succeeded or failed.
C15_RequestsRateLimited ==
    \A gap \in trend_requests.gaps : gap >= SleepSeconds

\* the keys the pass assigns in every record
PassKeys == {"popularity_score", "popularity_score_old", "popularity_last_updated"}

\* after is before but for the keys of the pass, and keeps before's score
rescored_from(before, after) ==
    /\ DOMAIN after = DOMAIN before \cup PassKeys
    /\ \A key \in DOMAIN before \ PassKeys : after[key] = before[key]
    /\ after.popularity_score_old = dict_get(before, "popularity_score", 0)

\* C28: a pass that completes writes a store with as many records as it
\* loaded, every loaded record exactly once, each with all its other fields
\* as they were and with popularity_score_old set to the popularity_score it
\* had before the pass (0 if it had none); no other step writes the store.
C28_PassFrame ==
    [][/\ store' # store => (pass_pc = "loop" /\ pass_pc' = "done")
       /\ (pass_pc = "loop" /\ pass_pc' = "done") =>
             /\ Len(store') = Len(store)
             /\ \A i \in DOMAIN store :
                   /\ Cardinality({j \in DOMAIN store' : store'[j].id = store[i].id}) = 1
                   /\ \A j \in DOMAIN store' :
                         store'[j].id = store[i].id => rescored_from(store[i], store'[j])]_vars

\* a completed pass that changed the order of two records, one that had a
\* score before and one that had none
C28_Witness ==
    /\ pass_pc = "done"
    /\ Len(store) = 2
    /\ store[1].id = 2
    /\ \E i \in DOMAIN store : store[i].popularity_score_old = 0
    /\ \E i \in DOMAIN store : store[i].popularity_score_old = 450

----------------------------------------------------------------------------
(* Claims about the scoring functions, checked under SpecFn *)

\* C13: the popularity score is 0.40*trend + 0.30*engagement + 0.20*quality
\* + 0.10*recency rounded to one decimal (at most 0.05 from the exact sum, and
\* a whole number of tenths), the weights summing to 1.0.  The sum is counted
\* in thousandths: the trend in tenths, the other signals in points.
C13_WeightedSum ==
    scores.fn = "calculate_real_popularity" =>
        LET exact == 40 * scores.google_trends
                     + 300 * get_engagement_score(dict_get(subject, "name", <<>>))
                     + 200 * calculate_quality_score(subject)
                     + 100 * calculate_recency_boost(subject)
        IN  /\ 40 + 30 + 20 + 10 = 100
            /\ 100 * scores.score - exact <= 50
            /\ exact - 100 * scores.score <= 50

\* a score whose exact sum is not a whole number of tenths, with a trend value
\* the provider gave and a quality that is neither 0 nor 100
C13_Witness ==
    /\ scores.fn = "calculate_real_popularity"
    /\ scores.available /\ scores.answer.kind = "ok"
    /\ (40 * scores.google_trends) % 100 # 0
    /\ calculate_quality_score(subject) \notin {0, 100}
    /\ 100 * scores.score # 40 * scores.google_trends + 18000
                            + 200 * calculate_quality_score(subject) + 5000

----------------------------------------------------------------------------
(* Claims about the recipe service, checked under SpecMatch *)

\* C7: a request with an empty ingredient list, on any corpus, or any request
\* on an empty corpus, is answered with an empty list and raises no error; in
\* particular nothing is divided by the length of the query.
C7_EmptyInputsGiveEmptyResult ==
    (svc_pc = "responded" /\ (request.ingredients = <<>> \/ svc_recipes = <<>>))
    => (response = <<>> /\ raised = "none")

\* an empty query answered on a corpus that has a recipe with ingredients
C7_Witness ==
    /\ svc_pc = "responded"
    /\ request.ingredients = <<>>
    /\ \E i \in DOMAIN svc_recipes : svc_recipes[i].ingredients # <<>>
    /\ response = <<>>
    /\ raised = "none"

\* the corpus positions of the recipes that matched at least one query item
Matching == {i \in DOMAIN svc_recipes : match_counts[i] > 0}

\* C8: the answer holds only recipes of the corpus with match_count > 0, each
\* once, in non-increasing order of match_count, at most limit of them, and
\* they are the first limit ones of that order: min(limit, number matching)
\* entries, none of them matching fewer items than a recipe left out.
C8_TopLimitByMatchCount ==
    svc_pc = "responded" =>
        /\ \A k \in DOMAIN response :
              /\ response[k].id \in Matching
              /\ response[k] = svc_recipes[response[k].id]
        /\ \A j, k \in DOMAIN response :
              j < k => /\ response[j].id # response[k].id
                       /\ match_counts[response[j].id] >= match_counts[response[k].id]
        /\ Len(response) <= request.limit
        /\ Len(response) = Min(request.limit, Cardinality(Matching))
        /\ \A i \in Matching \ {response[k].id : k \in DOMAIN response} :
              \A k \in DOMAIN response : match_counts[i] <= match_counts[response[k].id]

\* more recipes matched than the limit allows, and the answer starts with a
\* recipe that stands later in the corpus than one matching fewer items
C8_Witness ==
    /\ svc_pc = "responded"
    /\ Cardinality(Matching) > request.limit
    /\ Len(response) = request.limit
    /\ \E i \in Matching :
          /\ i < response[1].id
          /\ match_counts[i] < match_counts[response[1].id]

\* the recipe's ingredients, each normalized, as one text
normalized_text(recipe) ==
    str_join([i \in DOMAIN recipe.ingredients |-> normalize_ingredient(recipe.ingredients[i])])

\* the distinct normalized query ingredients that occur in that text
distinct_matches(recipe, ingredients) ==
    {q \in {normalize_ingredient(ingredients[i]) : i \in DOMAIN ingredients} :
        IsSubstring(q, normalized_text(recipe))}

\* C9: for every recipe, match_count is the number of distinct normalized
\* query ingredients that are substrings of the recipe's normalized ingredient
\* text, and match_ratio is that number over max(1, len(query)).
C9_CountsDistinctNormalized ==
    svc_pc = "responded" =>
        /\ \A i \in DOMAIN svc_recipes :
              match_counts[i] =
                  Cardinality(distinct_matches(svc_recipes[i], request.ingredients))
        /\ \A k \in DOMAIN scored_recipes :
              scored_recipes[k].match_ratio.num * Max(1, Len(request.ingredients)) =
                  Cardinality(distinct_matches(scored_recipes[k].recipe, request.ingredients))
                  * scored_recipes[k].match_ratio.den

\* a query ingredient that normalizes to fewer than 2 characters
unusable(ingredient) == Len(normalize_ingredient(ingredient)) < 2

\* C21: a query ingredient that normalizes to fewer than 2 characters counts
\* toward no recipe's match_count, so a request whose ingredients are all of
\* that kind is answered with no recipes.
C21_ShortIngredientsExcluded ==
    (/\ svc_pc = "responded"
     /\ \A i \in DOMAIN request.ingredients : unusable(request.ingredients[i]))
    => (/\ response = <<>>
        /\ \A i \in DOMAIN match_counts : match_counts[i] = 0)

----------------------------------------------------------------------------
(* Claims about the tools' write-back, checked under SpecTools *)

\* C16: a reader that loads the store at any moment finds the whole old or
\* the whole new corpus, never a partially written file.
C16_ReadersSeeWholeCorpus ==
    /\ reader_saw # "partial"
    /\ (svc_pc = "ready" /\ tool.pc = "writing") => svc_recipes \in {pre_run, tool_out}

\* C17: when an I/O error stops a tool while it persists the corpus, the
\* primary store is exactly as it was before the run.
C17_IOErrorLeavesStoreUntouched ==
    tool.pc = "io_error" => (store = pre_run /\ store_complete)

\* C18: a run has opened the primary store for writing only if the user
\* answered its confirmation prompt with yes in that run.
C18_WriteBackOnlyAfterConfirmation ==
    tool.pc \in {"writing", "done"} => confirmed = "yes"

\* C19: the pre-run content of every run that opened the primary store for
\* writing is held by a backup file, for the current run and the earlier ones.
C19_BackupBeforeWriteBack ==
    \A content \in overwritten : content = backup

\* C20: a tool that loaded a corpus with a record lacking its name goes on
\* with the other records: it is not aborted.
C20_MalformedRecordSkipped ==
    (\E i \in DOMAIN tool_recipes : "name" \notin DOMAIN tool_recipes[i])
    => tool.pc # "aborted"

\* C26: a run of the resolver or of the trend scorer in which the user did
\* not answer yes, or in which the resolver found no duplicates, writes
\* neither the primary store nor the backup file, and ends with the store
\* as it was when the run started.
C26_DeclinedRunWritesNothing ==
    [][/\ (tool.name \in {Tool_dedup, Tool_real} /\ confirmed' # "yes")
            => (store' = store /\ store_complete' = store_complete /\ backup' = backup)
       /\ tool'.pc = "exit" => store' = pre_run']_vars

\* the resolver found duplicates in a store never written before, the user
\* answered no, and the run is at its end
C26_Witness ==
    /\ tool = [name |-> Tool_dedup, pc |-> "exit"]
    /\ confirmed = "no"
    /\ count_duplicates(group_recipes(<<>>, tool_recipes)) > 0
    /\ store = pre_run
    /\ backup = <<>>
    /\ overwritten = {}

----------------------------------------------------------------------------
(* Claims about the corpus under import runs, resolver runs and popularity
   passes made one after the other, checked under SpecImport *)

\* C23: started on a store with unique ids, after any sequence of importer
\* runs, resolver runs and popularity passes no two records of the store
\* have the same id.
C23_IdsUnique ==
    \A i, j \in DOMAIN store : i # j => store[i].id # store[j].id

\* the number of records of a corpus that have the id
IdCount(corpus, id) == Cardinality({i \in DOMAIN corpus : corpus[i].id = id})

\* the step is the resolver's write of the corpus it deduplicated
ResolverWrites ==
    /\ tool.name = Tool_dedup
    /\ tool.pc = "write"
    /\ tool'.pc = "writing"

----------------------------------------------------------------------------
(* Claims about overlapping runs, checked under SpecOverlap *)

\* the ids of the records of a list
ids_of(corpus) == {corpus[i].id : i \in DOMAIN corpus}

\* C29: no write of the store loses an update made since the writer loaded
\* it: a tool's write keeps every record of the store it replaces that the
\* tool did not load, and an importer's write brings back no record that
\* had left the store since the importer loaded it.
C29_NoLostUpdate ==
    [][/\ (tool.pc = "write" /\ tool'.pc = "writing") =>
             (ids_of(store) \ ids_of(tool_recipes)) \subseteq ids_of(store')
       /\ (importer.pc = "write" /\ importer'.pc = "writing") =>
             ids_of(store') \subseteq (ids_of(store) \cup ids_of(new_recipes))]_vars

----------------------------------------------------------------------------
(* Claims about the importers' name key, checked under SpecImport *)

\* the store was empty and has since been written by runs of the Food.com
\* and API importers only
ImportedOnly ==
    /\ tool_runs = 0
    /\ import_log # <<>>
    /\ import_log[1].replaced = <<>>
    /\ \A k \in DOMAIN import_log :
          /\ import_log[k].importer \in NameCheckingImporters
          /\ import_log[k].existing = import_log[k].replaced

\* C30: in a store built from empty by Food.com and API importer runs only,
\* two records have the same importer key exactly when they have the same
\* resolver key, and no two records have the same resolver key.
C30_ImportersAgreeWithResolver ==
    ImportedOnly =>
        \A i, j \in DOMAIN store :
            i # j =>
                /\ (api_normalize_name(store[i].name) = api_normalize_name(store[j].name))
                       <=> (normalize_name(store[i].name) = normalize_name(store[j].name))
                /\ (foodcom_normalize_name(store[i].name) = foodcom_normalize_name(store[j].name))
                       <=> (normalize_name(store[i].name) = normalize_name(store[j].name))
                /\ normalize_name(store[i].name) # normalize_name(store[j].name)

====
